---- MODULE Spec2Model ----
(***************************************************************************)
(* Copy-on-write worktree creation: the clone engine, the file-clone       *)
(* worker pool and the worktree registration protocol of package cowgit.   *)
(*                                                                         *)
(* Paths are sequences of path components (filepath.Join concatenates and  *)
(* cleans them).  A branch name "p/x" is the sequence <<"p", "x">>: it is  *)
(* joined into directory paths component by component.  File contents are  *)
(* sequences of tokens, each token itself a sequence of components, so     *)
(* that an embedded absolute path is a token.                              *)
(***************************************************************************)
EXTENDS Integers, Sequences, FiniteSets, TLC

\* ---- bounds of the model ------------------------------------------------
MaxRequests == 2   \* worktree-creation requests issued one after the other
NumCPU      == 2   \* runtime.NumCPU(): workers started by Pool.Start
QueueCap    == 2   \* buffer of the task channel (1000 / 100 in the code)
MaxDepth    == 2   \* ParallelDepth is drawn from 1..MaxDepth

\* ---- paths ----------------------------------------------------------------
Root      == << >>
RepoPath  == <<"repo">>
WtPaths   == {<<"wt1">>, <<"wt2">>}
DotGit    == <<".git">>
GitHEAD   == <<".git", "HEAD">>

\* Branch names a request may carry; <<"p","x">> is "p/x" (Prefix "p/").
BranchNames == {<<"x">>, <<"p", "x">>}
MainBranch  == <<"main">>
AllBranches == BranchNames \cup {MainBranch}

NoCommit == "none"
Commits  == {"c1"}

IsPrefix(a, b) == Len(a) <= Len(b) /\ SubSeq(b, 1, Len(a)) = a
Parent(p)      == SubSeq(p, 1, Len(p) - 1)
Base(p)        == <<p[Len(p)]>>
Prefixes(p)    == {SubSeq(p, 1, n) : n \in 0..Len(p)}

\* filepath.Clean on base joined with rel: ".." drops the last component.
RECURSIVE Resolve(_, _)
Resolve(base, rel) ==
    IF rel = << >> THEN base
    ELSE IF Head(rel) = ".."
         THEN Resolve(IF base = << >> THEN base ELSE Parent(base), Tail(rel))
         ELSE Resolve(Append(base, Head(rel)), Tail(rel))

\* ---- file system entries ----------------------------------------------------
NoEntry == [kind |-> "none", data |-> << >>, mode |-> 0]
Dir(m)        == [kind |-> "dir", data |-> << >>, mode |-> m]
File(d, m)    == [kind |-> "file", data |-> d, mode |-> m]
Symlink(t)    == [kind |-> "symlink", data |-> t, mode |-> 511]

\* Every entry a source tree of the model may hold, in filepath.Walk order
\* (lexical, directories before their contents).
AllEntries == << DotGit, GitHEAD, <<"README">>, <<"link">>, <<"sub">>, <<"sub", "f">> >>
RelPaths   == {AllEntries[i] : i \in 1..Len(AllEntries)}
TreePaths  == RelPaths \cup {Root}

HeadRef(branch) == <<"refs", "heads">> \o branch

\* Contents of the origin working tree (and of its .git/HEAD file).
SrcInfo(rel) ==
    CASE rel = Root          -> Dir(493)
      [] rel = DotGit        -> Dir(493)
      [] rel = GitHEAD       -> File(<< <<"ref:">>, HeadRef(MainBranch) >>, 420)
      [] rel = <<"README">>  -> File(<< <<"a">> >>, 420)
      [] rel = <<"link">>    -> Symlink(<< <<"README">> >>)
      [] rel = <<"sub">>     -> Dir(448)
      [] rel = <<"sub", "f">> -> File(<< <<"home", "=">>, RepoPath \o <<"bin">> >>, 420)
      [] OTHER               -> NoEntry

\* The source trees of the model: .git is always there, the rest varies.
OptionalSets == { {}, {<<"README">>}, {<<"sub">>, <<"sub", "f">>},
                  {<<"README">>, <<"link">>, <<"sub">>, <<"sub", "f">>} }
Trees == { {Root, DotGit, GitHEAD} \cup s : s \in OptionalSets }

EmptyTree == [r \in TreePaths |-> NoEntry]

Exists(tree)   == tree[Root].kind # "none"
Entries(tree)  == {r \in TreePaths : tree[r].kind # "none"}
Under(rel)     == {r \in TreePaths : IsPrefix(rel, r)}


SrcTreeOf(paths) == [r \in TreePaths |-> IF r \in paths THEN SrcInfo(r) ELSE NoEntry]

\* os.MkdirAll(rel, mode): every missing directory on the way gets the mode.
MkdirAll(tree, rel, m) ==
    [r \in TreePaths |-> IF r \in Prefixes(rel) /\ tree[r].kind = "none"
                         THEN Dir(m) ELSE tree[r]]

\* os.RemoveAll(rel)
RemoveAll(tree, rel) ==
    [r \in TreePaths |-> IF IsPrefix(rel, r) THEN NoEntry ELSE tree[r]]

\* ---- ignore patterns and the rewrite of embedded paths ------------------------
IgnorePatterns == { <<"sub">> }

matchPattern(pattern, path) == path = pattern \/ IsPrefix(pattern, path)

GitIgnoreMatch(path) == \E pat \in IgnorePatterns : matchPattern(pat, path)

NulToken == <<"NUL">>
isValidText(content) == \A i \in 1..Len(content) : content[i] # NulToken

\* bytes.ReplaceAll(content, srcDir, dstDir) on tokens: a token that starts with
\* the source root gets the destination root instead.
ReplaceAll(content, srcDir, dstDir) ==
    [i \in 1..Len(content) |->
        IF IsPrefix(srcDir, content[i])
        THEN dstDir \o SubSeq(content[i], Len(srcDir) + 1, Len(content[i]))
        ELSE content[i]]

\* ---- worktree administration files ----------------------------------------------
NoFile == << <<"<absent>">> >>
NoMeta == [exists |-> FALSE, HEAD |-> NoFile, commondir |-> NoFile, gitdir |-> NoFile]

MetaIds == BranchNames \cup {Base(p) : p \in WtPaths}

GitDir(repo)          == repo \o DotGit
WorktreesDir(repo)    == GitDir(repo) \o <<"worktrees">>
\* worktreeMetaDir := filepath.Join(w.RepoPath, ".git", "worktrees", worktreeName)
WorktreeMetaDir(name) == WorktreesDir(RepoPath) \o name
\* headRef := "ref: refs/heads/<branch>\n"
HeadFileContent(branch) == << <<"ref:">>, HeadRef(branch) >>
\* "../..\n"
CommondirContent == << <<"..", "..">> >>
\* worktreeGitFile + "\n"
GitdirContent(wtPath) == << wtPath \o DotGit >>
\* "gitdir: <worktreeMetaDir>\n"
GitFileContent(name) == << <<"gitdir:">>, WorktreeMetaDir(name) >>

VARIABLES
    src,         \* paths present in the origin working tree
    originHead,  \* commit HEAD of the origin resolves to, or NoCommit
    originRefs,  \* refs/heads of the origin's (shared) ref store
    meta,        \* entries below <origin>/.git/worktrees
    fs,          \* the tree at each worktree path
    localRefs,   \* refs/heads created in the clone's own inherited .git
    w,           \* the Worktree of the request in progress
    pc,          \* position of the calling goroutine
    reqCount,    \* requests started so far
    result,      \* outcome of the last CreateCoWWorktree call
    failStage,   \* which stage of setupWorktreeWithCoWProgress failed
    faults,      \* failures injected into the request in progress
    poolKind,    \* "cow" (CoWPool), "atomic" (AtomicClonePool) or "none"
    queue,       \* fileChan / taskChan: the buffered task channel
    chanClosed,  \* the task channel has been closed
    errChan,     \* errChan: buffered, capacity 1
    errClosed,   \* errChan has been closed by Stop
    workers,     \* the worker goroutines started by AddWorker
    walkIdx,     \* next task the caller submits
    cloneErr     \* what the clone function is about to return

MaxFaults == 1

\* The pool with its scaling controller, tasks counted instead of named.
VARIABLES
    pk,          \* which pool: "cow", "atomic" or "rewrite" ("none": not started)
    ppc,         \* position of the goroutine that owns the pool
    pq,          \* len(fileChan) / len(taskChan)
    pleft,       \* tasks the owner has still to submit
    pclosed,     \* the input channel has been closed
    perr,        \* errors buffered in errChan (capacity 1)
    perrClosed,  \* errChan has been closed
    pdone,       \* processedFiles / processedDirs
    pw,          \* worker goroutines by registration and state
    cdec,        \* controller: "idle" at its select, else the pending adjustment
    cdelta,      \* processed - lastProcessed, as the controller's next tick computes it
    csince,      \* controller: ticks since lastAdjust (TicksLongAgo: a second or more)
    cstopped,    \* controller: done has been closed
    cexited,     \* controller: controlLoop has returned
    pfaults      \* task failures injected into the pool

pvars == <<pk, ppc, pq, pleft, pclosed, perr, perrClosed, pdone, pw,
           cdec, cdelta, csince, cstopped, cexited, pfaults>>

NoWorkers == [ri |-> 0, rb |-> 0, rx |-> 0, si |-> 0, sb |-> 0]

\* No pool of the second kind exists while a creation request is followed.
PoolIdle ==
    /\ pk = "none" /\ ppc = "none" /\ pq = 0 /\ pleft = 0 /\ pclosed = FALSE
    /\ perr = 0 /\ perrClosed = FALSE /\ pdone = 0 /\ pw = NoWorkers
    /\ cdec = "idle" /\ cdelta = 0 /\ csince = 0 /\ cstopped = FALSE
    /\ cexited = FALSE /\ pfaults = 0

\* A function of the package applied to one input, outside any request.
VARIABLES
    arg,         \* the input the function is called with
    ret,         \* what it returned
    called       \* the call has been made

fvars == <<arg, ret, called>>

FnIdle == arg = "none" /\ ret = "none" /\ called = FALSE

\* One pool followed task by task and worker by worker.
VARIABLES
    tpc,         \* position of the pool's owner ("panic": the process has crashed)
    tnext,       \* the next task the owner submits
    tq,          \* fileChan: the tasks in the buffer
    tclosed,     \* fileChan has been closed
    terr,        \* errChan: the failed tasks whose error is in the buffer
    terrClosed,  \* errChan has been closed
    tlog,        \* the failed tasks in the order their workers tried to send
    tgot,        \* the task whose error the owner received (0: none)
    ttask,       \* per task: times dequeued, times executed
    tw,          \* per worker id: goroutine state and registration
    tcnt         \* the counters copiedFiles, skippedFiles, processedFiles

tvars == <<tpc, tnext, tq, tclosed, terr, terrClosed, tlog, tgot, ttask, tw, tcnt>>

TasksIdle ==
    /\ tpc = "none" /\ tnext = 0 /\ tq = << >> /\ tclosed = FALSE /\ terr = << >>
    /\ terrClosed = FALSE /\ tlog = << >> /\ tgot = 0 /\ ttask = << >> /\ tw = << >>
    /\ tcnt = << >>

\* One rewrite pass over a destination tree, file by file.
VARIABLES
    rpc,         \* position of rewriteAbsolutePathsAsync
    rsrc,        \* srcDir, character by character
    rdst,        \* dstDir
    rfs,         \* the files of both trees: content, or link target
    rorig,       \* the same before the pass
    rpending,    \* paths submitted and not yet processed
    rwritten,    \* the files os.WriteFile has written
    rpass        \* which pass over the same destination this is

rvars == <<rpc, rsrc, rdst, rfs, rorig, rpending, rwritten, rpass>>

RewriteIdle ==
    /\ rpc = "none" /\ rsrc = << >> /\ rdst = << >> /\ rfs = << >> /\ rorig = << >>
    /\ rpending = {} /\ rwritten = {} /\ rpass = 0

\* The depth-limited clone on trees three levels deep.
VARIABLES
    dpc,         \* position of CloneDirectoryParallelDepth
    dsrc,        \* the source tree: the kind of every path
    dN,          \* maxDepth
    ddst,        \* the destination tree
    dtargets,    \* targets: the result of findDirectoriesAtDepth
    dnext,       \* index of the next target to submit
    dq,          \* taskChan
    dclosed,     \* taskChan has been closed
    dw,          \* the workers
    derr         \* errChan, capacity 1

dvars == <<dpc, dsrc, dN, ddst, dtargets, dnext, dq, dclosed, dw, derr>>

DepthIdle ==
    /\ dpc = "none" /\ dsrc = << >> /\ dN = 0 /\ ddst = << >> /\ dtargets = << >>
    /\ dnext = 0 /\ dq = << >> /\ dclosed = FALSE /\ dw = << >> /\ derr = << >>

xvars == <<fvars, tvars, rvars, dvars>>

ExtraIdle == FnIdle /\ TasksIdle /\ RewriteIdle /\ DepthIdle

NoWorktree == [path |-> Root, branch |-> Root, base |-> NoCommit,
               mode |-> "none", depth |-> 0, noRewrite |-> FALSE]

Modes == {"atomic", "parallel", "forced", "depth"}

\* An operation of the environment either works or, within the budget, fails.
CanFail(ok) == ok \/ faults < MaxFaults
Charge(ok)  == faults' = IF ok THEN faults ELSE faults + 1
\* The same for an operation that can only work when pre holds.
CanEnd(ok, pre) == IF ok THEN pre ELSE (~pre \/ faults < MaxFaults)
ChargeIf(ok, pre) == faults' = IF ~ok /\ pre THEN faults + 1 ELSE faults

Dest == fs[w.path]
SetDest(tree) == fs' = [fs EXCEPT ![w.path] = tree]

\* git finds a repository in a directory whose .git is a directory with a HEAD.
GitDirValid(tree) == tree[DotGit].kind = "dir" /\ tree[GitHEAD].kind = "file"

\* The refs a git command run inside the clone sees: the inherited copy of the
\* origin's refs plus what was created in the clone's own .git since.
CloneRefs == [b \in AllBranches |->
                 IF localRefs[b] # NoCommit THEN localRefs[b] ELSE originRefs[b]]

NoRefs == [b \in AllBranches |-> NoCommit]

WorkerIds == 1..NumCPU
NoWorker  == [st |-> "none", task |-> Root]
IdleWorker == [st |-> "idle", task |-> Root]

poolVars == <<poolKind, queue, chanClosed, errChan, errClosed, workers, walkIdx, cloneErr>>
gitVars  == <<originHead, originRefs, meta, localRefs>>

\* No creation request has been made yet.
RequestIdle ==
    /\ originRefs = [b \in AllBranches |-> IF b = MainBranch THEN originHead ELSE NoCommit]
    /\ meta = [id \in MetaIds |-> NoMeta]
    /\ fs = [p \in WtPaths |-> EmptyTree]
    /\ localRefs = NoRefs
    /\ w = NoWorktree
    /\ pc = "idle"
    /\ reqCount = 0
    /\ result = "none"
    /\ failStage = "none"
    /\ faults = 0
    /\ poolKind = "none"
    /\ queue = << >>
    /\ chanClosed = FALSE
    /\ errChan = << >>
    /\ errClosed = FALSE
    /\ workers = [i \in WorkerIds |-> NoWorker]
    /\ walkIdx = 0
    /\ cloneErr = FALSE

Init ==
    /\ PoolIdle
    /\ ExtraIdle
    /\ src \in Trees
    /\ originHead \in Commits \cup {NoCommit}
    /\ RequestIdle

\* No request and no pool: the state in which one function or one pass of the
\* package is studied on its own.
NothingRunning ==
    /\ src = {Root, DotGit, GitHEAD}
    /\ originHead = NoCommit
    /\ RequestIdle
    /\ PoolIdle

\* The caller of a creation (Manager.Create, the create and add commands):
\* NewWorktreeWithAllOptions(...), then CreateCoWWorktree if IsCoWSupported says
\* so, else straight to the caller's own git worktree add.
StartRequest ==
    /\ pc \in {"idle", "done"}
    /\ reqCount < MaxRequests
    /\ \E p \in WtPaths, b \in BranchNames, m \in Modes, d \in 1..MaxDepth, nr \in BOOLEAN :
          /\ (m # "depth" => d = 1)
          /\ w' = [path |-> p, branch |-> b, base |-> NoCommit, mode |-> m,
                   depth |-> IF m = "depth" THEN d ELSE 0, noRewrite |-> nr]
    /\ \E supported \in BOOLEAN :
          pc' = IF supported THEN "worktree_remove" ELSE "caller_fallback"
    /\ reqCount' = reqCount + 1
    /\ result' = "none"
    /\ failStage' = "none"
    /\ faults' = 0
    /\ localRefs' = NoRefs
    /\ poolKind' = "none" /\ queue' = << >> /\ chanClosed' = FALSE /\ errChan' = << >>
    /\ errClosed' = FALSE /\ workers' = [i \in WorkerIds |-> NoWorker]
    /\ walkIdx' = 0 /\ cloneErr' = FALSE
    /\ UNCHANGED <<src, originHead, originRefs, meta, fs>>
    /\ UNCHANGED <<pvars, xvars>>

\* The entries `git worktree list` reads: direct children of .git/worktrees
\* that hold a gitdir file.
Listed(id) == meta[id].exists /\ Len(id) = 1 /\ meta[id].gitdir # NoFile

\* git worktree remove -f <path>, error ignored
GitWorktreeRemove ==
    /\ pc = "worktree_remove"
    /\ LET ids == {id \in MetaIds : /\ Listed(id)
                                    /\ meta[id].gitdir = GitdirContent(w.path)
                                    /\ Dest[DotGit] = File(GitFileContent(id), 420)}
       IN IF ids # {}
          THEN /\ meta' = [id \in MetaIds |-> IF id \in ids THEN NoMeta ELSE meta[id]]
               /\ SetDest(EmptyTree)
          ELSE UNCHANGED <<meta, fs>>
    /\ pc' = "rev_parse"
    /\ UNCHANGED <<src, originHead, originRefs, localRefs, w, reqCount, result, failStage, faults, poolVars>>
    /\ UNCHANGED <<pvars, xvars>>

\* git rev-parse HEAD in the origin; w.BaseCommit = headCommit
RevParseHead ==
    /\ pc = "rev_parse"
    /\ IF originHead = NoCommit
       THEN /\ pc' = "caller_fallback" /\ result' = "error" /\ UNCHANGED w
       ELSE /\ pc' = "remove_existing" /\ w' = [w EXCEPT !.base = originHead]
            /\ UNCHANGED result
    /\ UNCHANGED <<src, originHead, originRefs, meta, fs, localRefs, reqCount, failStage, faults, poolVars>>
    /\ UNCHANGED <<pvars, xvars>>

\* os.RemoveAll(w.WorktreePath) at the head of setupWorktreeWithCoWProgress
RemoveExisting ==
    /\ pc = "remove_existing"
    /\ \E ok \in BOOLEAN :
          /\ CanFail(ok) /\ Charge(ok)
          /\ IF ok THEN /\ SetDest(EmptyTree) /\ pc' = "clone" /\ UNCHANGED failStage
                   ELSE /\ pc' = "fallback" /\ failStage' = "remove" /\ UNCHANGED fs
    /\ localRefs' = NoRefs
    /\ UNCHANGED <<src, originHead, originRefs, meta, w, reqCount, result, poolVars>>
    /\ UNCHANGED <<pvars, xvars>>

\* CloneDirectory -> cloneDirectoryAPFS: isAPFS, then one clonefile of the tree
CloneDirectory ==
    /\ pc = "clone" /\ w.mode = "atomic"
    /\ \E ok \in BOOLEAN :
          /\ CanFail(ok) /\ Charge(ok)
          /\ IF ok THEN /\ SetDest(SrcTreeOf(src)) /\ pc' = "branch" /\ UNCHANGED failStage
                   ELSE /\ pc' = "fallback" /\ failStage' = "clone" /\ UNCHANGED fs
    /\ UNCHANGED <<src, gitVars, w, reqCount, result, poolVars>>
    /\ UNCHANGED <<pvars, xvars>>

\* ---- the clone strategies ---------------------------------------------------------
InSrc(r) == r \in src
\* filepath.Walk(src, ...) without the root: lexical pre-order
WalkList == SelectSeq(AllEntries, InSrc)

Skipped(skipped, r) == \E s \in skipped : s # r /\ IsPrefix(s, r)

\* findDirectoriesAtDepth: the walk callback, with its SkipDir returns
RECURSIVE FindDirs(_, _, _, _)
FindDirs(list, targetDepth, skipped, acc) ==
    IF list = << >> THEN acc
    ELSE LET r == Head(list) rest == Tail(list) IN
         IF Skipped(skipped, r) \/ SrcInfo(r).kind # "dir"
         THEN FindDirs(rest, targetDepth, skipped, acc)
         ELSE IF Len(r) = targetDepth
              THEN FindDirs(rest, targetDepth, skipped \cup {r}, Append(acc, r))
              ELSE IF Len(r) > targetDepth
                   THEN FindDirs(rest, targetDepth, skipped \cup {r}, acc)
                   ELSE FindDirs(rest, targetDepth, skipped, acc)

findDirectoriesAtDepth(targetDepth) == FindDirs(WalkList, targetDepth, {}, << >>)

\* createDirectoryStructure: the directories it creates, in walk order
RECURSIVE SkeletonDirs(_, _, _, _)
SkeletonDirs(list, maxDepth, skipped, acc) ==
    IF list = << >> THEN acc
    ELSE LET r == Head(list) rest == Tail(list) IN
         IF Skipped(skipped, r) \/ SrcInfo(r).kind # "dir"
         THEN SkeletonDirs(rest, maxDepth, skipped, acc)
         ELSE SkeletonDirs(rest, maxDepth,
                           IF Len(r) >= maxDepth THEN skipped \cup {r} ELSE skipped,
                           IF Len(r) <= maxDepth THEN Append(acc, r) ELSE acc)

createDirectoryStructure(maxDepth) == <<Root>> \o SkeletonDirs(WalkList, maxDepth, {}, << >>)

RECURSIVE MkdirEach(_, _)
MkdirEach(tree, dirs) ==
    IF dirs = << >> THEN tree
    ELSE MkdirEach(MkdirAll(tree, Head(dirs), SrcInfo(Head(dirs)).mode), Tail(dirs))

\* The tasks the caller submits: every walked entry (file-level clone) or the
\* directories at the target depth (depth-limited clone).
Tasks == IF poolKind = "cow" THEN WalkList
         ELSE IF poolKind = "atomic" THEN findDirectoriesAtDepth(w.depth)
         ELSE << >>

\* NewCoWPool / NewAtomicClonePool, pool.Start(), controller.Start()
StartPool(kind) ==
    /\ poolKind' = kind
    /\ queue' = << >>
    /\ chanClosed' = FALSE
    /\ errChan' = << >>
    /\ errClosed' = FALSE
    /\ workers' = [i \in WorkerIds |-> IdleWorker]
    /\ walkIdx' = 1
    /\ cloneErr' = FALSE

CloneFailed == pc' = "fallback" /\ failStage' = "clone"

\* CloneDirectoryParallel: isAPFS, one whole-tree clonefile, else the fallback
CloneDirectoryParallel ==
    /\ pc = "clone" /\ w.mode = "parallel"
    /\ \E out \in {"unsupported", "cloned", "atomic_failed"} :
          /\ CanFail(out = "cloned") /\ Charge(out = "cloned")
          /\ CASE out = "unsupported"   -> CloneFailed /\ UNCHANGED fs
               [] out = "cloned"        -> /\ SetDest(SrcTreeOf(src)) /\ pc' = "branch"
                                           /\ UNCHANGED failStage
               [] out = "atomic_failed" -> /\ pc' = "pf_start"
                                           /\ UNCHANGED <<fs, failStage>>
    /\ UNCHANGED <<src, gitVars, w, reqCount, result, poolVars>>
    /\ UNCHANGED <<pvars, xvars>>

\* CloneDirectoryParallelForced: isAPFS, then straight to the fallback
CloneDirectoryParallelForced ==
    /\ pc = "clone" /\ w.mode = "forced"
    /\ \E ok \in BOOLEAN :
          /\ CanFail(ok) /\ Charge(ok)
          /\ IF ok THEN pc' = "pf_start" /\ UNCHANGED failStage ELSE CloneFailed
    /\ UNCHANGED <<src, gitVars, fs, w, reqCount, result, poolVars>>
    /\ UNCHANGED <<pvars, xvars>>

\* cloneDirectoryParallelFallback up to the start of the walk
cloneDirectoryParallelFallback ==
    /\ pc = "pf_start"
    /\ \E ok \in BOOLEAN :
          /\ CanFail(ok) /\ Charge(ok)
          /\ IF ok THEN /\ SetDest(MkdirAll(Dest, Root, 493))
                        /\ StartPool("cow")
                        /\ pc' = "pool_submit" /\ UNCHANGED failStage
                   ELSE /\ CloneFailed /\ UNCHANGED <<fs, poolVars>>
    /\ UNCHANGED <<src, gitVars, w, reqCount, result>>
    /\ UNCHANGED <<pvars, xvars>>

\* CloneDirectoryParallelDepth up to the submission of the targets
CloneDirectoryParallelDepth ==
    /\ pc = "clone" /\ w.mode = "depth"
    /\ LET dirs == createDirectoryStructure(w.depth - 1) IN
       \E n \in 0..Len(dirs) :
          /\ CanFail(n = Len(dirs)) /\ Charge(n = Len(dirs))
          /\ SetDest(MkdirEach(Dest, SubSeq(dirs, 1, n)))
          /\ IF n = Len(dirs)
             THEN /\ StartPool("atomic") /\ pc' = "pool_submit" /\ UNCHANGED failStage
             ELSE /\ CloneFailed /\ UNCHANGED poolVars
    /\ UNCHANGED <<src, gitVars, w, reqCount, result>>
    /\ UNCHANGED <<pvars, xvars>>

\* pool.Submit(task): blocks while the channel buffer is full
Submit ==
    /\ pc = "pool_submit"
    /\ walkIdx <= Len(Tasks)
    /\ Len(queue) < QueueCap
    /\ queue' = Append(queue, Tasks[walkIdx])
    /\ walkIdx' = walkIdx + 1
    /\ UNCHANGED <<src, gitVars, fs, w, pc, reqCount, result, failStage, faults,
                   poolKind, chanClosed, errChan, errClosed, workers, cloneErr>>
    /\ UNCHANGED <<pvars, xvars>>

\* close(pool.fileChan) / close(pool.taskChan) once everything is submitted
CloseTaskChan ==
    /\ pc = "pool_submit"
    /\ walkIdx > Len(Tasks)
    /\ chanClosed' = TRUE
    /\ pc' = "pool_check"
    /\ UNCHANGED <<src, gitVars, fs, w, reqCount, result, failStage, faults,
                   poolKind, queue, errChan, errClosed, workers, walkIdx, cloneErr>>
    /\ UNCHANGED <<pvars, xvars>>

\* select { case err := <-pool.Error(): return err; default: }
CheckErrors ==
    /\ pc = "pool_check"
    /\ IF errChan # << >>
       THEN cloneErr' = TRUE /\ errChan' = Tail(errChan)
       ELSE cloneErr' = FALSE /\ UNCHANGED errChan
    /\ pc' = "pool_stop"
    /\ UNCHANGED <<src, gitVars, fs, w, reqCount, result, failStage, faults,
                   poolKind, queue, chanClosed, errClosed, workers, walkIdx>>
    /\ UNCHANGED <<pvars, xvars>>

AllWorkersGone == \A i \in WorkerIds : workers[i].st \in {"exited", "failed"}

\* deferred controller.Stop(); pool.Stop(): wg.Wait(), close(errChan); return
PoolStop ==
    /\ pc = "pool_stop"
    /\ AllWorkersGone
    /\ errClosed' = TRUE
    /\ IF cloneErr THEN CloneFailed ELSE pc' = "branch" /\ UNCHANGED failStage
    /\ UNCHANGED <<src, gitVars, fs, w, reqCount, result, faults,
                   poolKind, queue, chanClosed, errChan, workers, walkIdx, cloneErr>>
    /\ UNCHANGED <<pvars, xvars>>

\* worker: case task, ok := <-p.fileChan with a task in the buffer
WorkerTake(i) ==
    /\ workers[i].st = "idle"
    /\ queue # << >>
    /\ workers' = [workers EXCEPT ![i] = [st |-> "busy", task |-> Head(queue)]]
    /\ queue' = Tail(queue)
    /\ UNCHANGED <<src, gitVars, fs, w, pc, reqCount, result, failStage, faults,
                   poolKind, chanClosed, errChan, errClosed, walkIdx, cloneErr>>
    /\ UNCHANGED <<pvars, xvars>>

\* worker: the receive reports the channel closed and drained
WorkerExit(i) ==
    /\ workers[i].st = "idle"
    /\ queue = << >> /\ chanClosed
    /\ workers' = [workers EXCEPT ![i] = [st |-> "exited", task |-> Root]]
    /\ UNCHANGED <<src, gitVars, fs, w, pc, reqCount, result, failStage, faults,
                   poolKind, queue, chanClosed, errChan, errClosed, walkIdx, cloneErr>>
    /\ UNCHANGED <<pvars, xvars>>

\* processCoWTask: what a successful task leaves in the destination
processCoWTask(tree, rel) ==
    LET info == SrcInfo(rel) IN
    IF info.kind = "dir"
    THEN MkdirAll(tree, rel, info.mode)
    ELSE [MkdirAll(tree, Parent(rel), 493) EXCEPT ![rel] = info]

\* processCoWTask: what a failed task leaves behind
processCoWTaskFailed(tree, rel) ==
    IF SrcInfo(rel).kind = "dir" THEN tree ELSE MkdirAll(tree, Parent(rel), 493)

\* clonefile needs the parent of the target and refuses an existing target
CanCloneInto(tree, rel) == tree[rel].kind = "none" /\ tree[Parent(rel)].kind = "dir"

\* processAtomicClone: clonefile of the whole subtree
processAtomicClone(tree, rel) ==
    [r \in TreePaths |-> IF IsPrefix(rel, r) /\ r \in src THEN SrcInfo(r) ELSE tree[r]]

\* worker: process the task; on error send it without blocking and return
WorkerProcess(i) ==
    /\ workers[i].st = "busy"
    /\ LET rel == workers[i].task
           pre == poolKind = "cow" \/ CanCloneInto(Dest, rel)
       IN \E ok \in BOOLEAN :
          /\ CanEnd(ok, pre) /\ ChargeIf(ok, pre)
          /\ SetDest(IF poolKind = "cow"
                     THEN IF ok THEN processCoWTask(Dest, rel)
                                ELSE processCoWTaskFailed(Dest, rel)
                     ELSE IF ok THEN processAtomicClone(Dest, rel) ELSE Dest)
          /\ IF ok
             THEN /\ workers' = [workers EXCEPT ![i] = IdleWorker]
                  /\ UNCHANGED errChan
             ELSE /\ workers' = [workers EXCEPT ![i] = [st |-> "failed", task |-> rel]]
                  /\ errChan' = IF Len(errChan) < 1 THEN Append(errChan, rel) ELSE errChan
    /\ UNCHANGED <<src, gitVars, w, pc, reqCount, result, failStage,
                   poolKind, queue, chanClosed, errClosed, walkIdx, cloneErr>>
    /\ UNCHANGED <<pvars, xvars>>

\* ---- branch setup and registration (setupWorktreeWithCoWProgress, stage 2) ------
\* A setup that hands the error of a failed stage straight to the caller.
CleanupAndFail_Surfaced(stage) ==
    /\ SetDest(EmptyTree)
    /\ localRefs' = NoRefs
    /\ pc' = "caller_fallback"
    /\ failStage' = stage

\* os.RemoveAll(w.WorktreePath) and the error return of the failing stage
CleanupAndFail(stage) ==
    /\ SetDest(EmptyTree)
    /\ localRefs' = NoRefs
    /\ pc' = "fallback"
    /\ failStage' = stage

\* git branch <BranchName> <BaseCommit>, run in the worktree path
GitBranch ==
    /\ pc = "branch"
    /\ LET pre == GitDirValid(Dest) /\ CloneRefs[w.branch] = NoCommit IN
       \E ok \in BOOLEAN :
          /\ CanEnd(ok, pre) /\ ChargeIf(ok, pre)
          /\ IF ok THEN /\ localRefs' = [localRefs EXCEPT ![w.branch] = w.base]
                        /\ pc' = "symref"
                        /\ UNCHANGED <<fs, failStage>>
                   ELSE CleanupAndFail("branch")
    /\ UNCHANGED <<src, originHead, originRefs, meta, w, reqCount, result, poolVars>>
    /\ UNCHANGED <<pvars, xvars>>

\* git symbolic-ref HEAD refs/heads/<BranchName>, run in the worktree path
GitSymbolicRef ==
    /\ pc = "symref"
    /\ LET pre == GitDirValid(Dest) IN
       \E ok \in BOOLEAN :
          /\ CanEnd(ok, pre) /\ ChargeIf(ok, pre)
          /\ IF ok THEN /\ SetDest([Dest EXCEPT ![GitHEAD].data = HeadFileContent(w.branch)])
                        /\ pc' = "reg_mkdir"
                        /\ UNCHANGED <<localRefs, failStage>>
                   ELSE CleanupAndFail("symref")
    /\ UNCHANGED <<src, originHead, originRefs, meta, w, reqCount, result, poolVars>>
    /\ UNCHANGED <<pvars, xvars>>

\* worktreeName := w.BranchName
WorktreeName == w.branch

\* One file-system step of registerWorktreeManually on the origin's metadata:
\* it works and leaves newMeta, or the registration fails and the clone is removed.
RegMetaStep(from, to, newMeta) ==
    /\ pc = from
    /\ \E ok \in BOOLEAN :
          /\ CanFail(ok) /\ Charge(ok)
          /\ IF ok THEN /\ meta' = newMeta /\ pc' = to
                        /\ UNCHANGED <<fs, localRefs, failStage>>
                   ELSE /\ CleanupAndFail("register") /\ UNCHANGED meta
    /\ UNCHANGED <<src, originHead, originRefs, w, reqCount, result, poolVars>>
    /\ UNCHANGED <<pvars, xvars>>

\* os.MkdirAll(worktreeMetaDir, 0755)
RegMkdirMeta ==
    RegMetaStep("reg_mkdir", "reg_head", [meta EXCEPT ![WorktreeName].exists = TRUE])

\* os.WriteFile(headFile, "ref: refs/heads/<branch>\n")
RegWriteHEAD ==
    RegMetaStep("reg_head", "reg_commondir",
                [meta EXCEPT ![WorktreeName].HEAD = HeadFileContent(w.branch)])

\* os.WriteFile(commondirFile, "../..\n")
RegWriteCommondir ==
    RegMetaStep("reg_commondir", "reg_gitdir",
                [meta EXCEPT ![WorktreeName].commondir = CommondirContent])

\* A registration that goes on to remove the clone's .git without having
\* written the gitdir file.
RegWriteGitdir_Skipped ==
    RegMetaStep("reg_gitdir", "reg_rmgit", meta)

\* os.WriteFile(gitdirFile, worktreeGitFile + "\n")
RegWriteGitdir ==
    RegMetaStep("reg_gitdir", "reg_rmgit",
                [meta EXCEPT ![WorktreeName].gitdir = GitdirContent(w.path)])

\* os.RemoveAll(worktreeGitDir): the clone's own repository is gone
RegRemoveGitDir ==
    /\ pc = "reg_rmgit"
    /\ \E ok \in BOOLEAN :
          /\ CanFail(ok) /\ Charge(ok)
          /\ IF ok THEN /\ SetDest(RemoveAll(Dest, DotGit))
                        /\ localRefs' = NoRefs
                        /\ pc' = "reg_gitfile"
                        /\ UNCHANGED failStage
                   ELSE CleanupAndFail("register")
    /\ UNCHANGED <<src, originHead, originRefs, meta, w, reqCount, result, poolVars>>
    /\ UNCHANGED <<pvars, xvars>>

\* os.WriteFile(worktreeGitFile, "gitdir: <worktreeMetaDir>\n")
RegWriteGitFile ==
    /\ pc = "reg_gitfile"
    /\ \E ok \in BOOLEAN :
          /\ CanFail(ok) /\ Charge(ok)
          /\ IF ok THEN /\ SetDest([Dest EXCEPT ![DotGit] = File(GitFileContent(WorktreeName), 420)])
                        /\ pc' = "rewrite"
                        /\ UNCHANGED <<localRefs, failStage>>
                   ELSE CleanupAndFail("register")
    /\ UNCHANGED <<src, originHead, originRefs, meta, w, reqCount, result, poolVars>>
    /\ UNCHANGED <<pvars, xvars>>

\* ---- stage 3: the rewrite pass ------------------------------------------------------
\* WorkerPool.processFile on one file of the destination
processFile(tree, r) ==
    IF tree[r].kind = "file" /\ GitIgnoreMatch(r) /\ isValidText(tree[r].data)
    THEN [tree[r] EXCEPT !.data = ReplaceAll(tree[r].data, RepoPath, w.path)]
    ELSE tree[r]

Rewritable == {r \in TreePaths : processFile(Dest, r) # Dest[r]}

\* A rewrite stage whose failure removes the destination and fails the setup.
RewritePass_Fatal ==
    /\ pc = "rewrite"
    /\ IF w.noRewrite
       THEN /\ pc' = "done" /\ result' = "cow" /\ UNCHANGED <<fs, faults, failStage>>
       ELSE \E done \in SUBSET Rewritable :
               /\ CanFail(done = Rewritable) /\ Charge(done = Rewritable)
               /\ IF done = Rewritable
                  THEN /\ SetDest([r \in TreePaths |-> processFile(Dest, r)])
                       /\ pc' = "done" /\ result' = "cow" /\ UNCHANGED failStage
                  ELSE /\ SetDest(EmptyTree)
                       /\ pc' = "fallback" /\ failStage' = "rewrite" /\ UNCHANGED result
    /\ UNCHANGED <<src, gitVars, w, reqCount, poolVars>>
    /\ UNCHANGED <<pvars, xvars>>

\* if !w.NoRewrite { rewriteAbsolutePaths... }: best effort, an error is dropped;
\* then setupWorktreeWithCoWProgress and CreateCoWWorktreeWithProgress return nil
RewritePass ==
    /\ pc = "rewrite"
    /\ IF w.noRewrite
       THEN UNCHANGED <<fs, faults>>
       ELSE \E done \in SUBSET Rewritable :
               /\ CanFail(done = Rewritable) /\ Charge(done = Rewritable)
               /\ SetDest([r \in TreePaths |->
                             IF r \in done THEN processFile(Dest, r) ELSE Dest[r]])
    /\ pc' = "done"
    /\ result' = "cow"
    /\ UNCHANGED <<src, gitVars, w, reqCount, failStage, poolVars>>
    /\ UNCHANGED <<pvars, xvars>>

\* ---- the native fallback --------------------------------------------------------------
Tracked(r) == r = <<"README">>

\* what git worktree add checks out and writes at the path
CheckoutTree(name) ==
    [r \in TreePaths |->
        IF r = Root THEN Dir(493)
        ELSE IF r = DotGit THEN File(GitFileContent(name), 420)
        ELSE IF r \in src /\ Tracked(r) THEN SrcInfo(r) ELSE NoEntry]

PathRegistered(p) == \E id \in MetaIds : Listed(id) /\ meta[id].gitdir = GitdirContent(p)

\* setupRegularWorktree: git worktree add -b <branch> <path> <headCommit>
setupRegularWorktree ==
    /\ pc = "fallback"
    /\ LET pre == /\ originRefs[w.branch] = NoCommit
                  /\ Entries(Dest) \subseteq {Root}
                  /\ ~PathRegistered(w.path)
           name == Base(w.path)
       IN \E ok \in BOOLEAN :
          /\ CanEnd(ok, pre) /\ ChargeIf(ok, pre)
          /\ IF ok
             THEN /\ originRefs' = [originRefs EXCEPT ![w.branch] = w.base]
                  /\ meta' = [meta EXCEPT ![name] =
                                [exists |-> TRUE, HEAD |-> HeadFileContent(w.branch),
                                 commondir |-> CommondirContent,
                                 gitdir |-> GitdirContent(w.path)]]
                  /\ SetDest(CheckoutTree(name))
                  /\ result' = "native"
                  /\ pc' = "done"
             ELSE /\ result' = "error"
                  /\ pc' = "caller_fallback"
                  /\ UNCHANGED <<originRefs, meta, fs>>
    /\ UNCHANGED <<src, originHead, localRefs, w, reqCount, failStage, poolVars>>
    /\ UNCHANGED <<pvars, xvars>>

\* what git worktree add checks out when HEAD of the origin is at commit
CheckoutAt(name, commit) ==
    IF commit = NoCommit
    THEN [CheckoutTree(name) EXCEPT ![<<"README">>] = NoEntry]
    ELSE CheckoutTree(name)

\* The caller's fallback after CreateCoWWorktree returned an error or was not
\* tried: Manager.createRegularWorktree, git worktree add -b <branch> <path>.
\* On an origin without a commit git either refuses or starts an unborn branch.
createRegularWorktree ==
    /\ pc = "caller_fallback"
    /\ LET pre == /\ originRefs[w.branch] = NoCommit
                  /\ Entries(Dest) \subseteq {Root}
                  /\ ~PathRegistered(w.path)
           name == Base(w.path)
       IN \E ok \in BOOLEAN :
          /\ IF ok THEN pre ELSE (~pre \/ originHead = NoCommit \/ faults < MaxFaults)
          /\ faults' = IF ~ok /\ pre /\ originHead # NoCommit THEN faults + 1 ELSE faults
          /\ IF ok
             THEN /\ originRefs' = [originRefs EXCEPT ![w.branch] = originHead]
                  /\ meta' = [meta EXCEPT ![name] = [exists |-> TRUE,
                                 HEAD |-> HeadFileContent(w.branch),
                                 commondir |-> CommondirContent,
                                 gitdir |-> GitdirContent(w.path)]]
                  /\ SetDest(CheckoutAt(name, originHead))
                  /\ result' = "native"
             ELSE /\ result' = "error"
                  /\ UNCHANGED <<originRefs, meta, fs>>
    /\ pc' = "done"
    /\ UNCHANGED <<src, originHead, localRefs, w, reqCount, failStage, poolVars>>
    /\ UNCHANGED <<pvars, xvars>>

mainVars == <<src, originHead, originRefs, meta, fs, localRefs, w, pc, reqCount, result,
          failStage, faults, poolKind, queue, chanClosed, errChan, errClosed, workers,
          walkIdx, cloneErr>>

Next ==
    \/ StartRequest
    \/ GitWorktreeRemove
    \/ RevParseHead
    \/ RemoveExisting
    \/ CloneDirectory
    \/ CloneDirectoryParallel
    \/ CloneDirectoryParallelForced
    \/ cloneDirectoryParallelFallback
    \/ CloneDirectoryParallelDepth
    \/ Submit
    \/ CloseTaskChan
    \/ CheckErrors
    \/ PoolStop
    \/ \E i \in WorkerIds : WorkerTake(i)
    \/ \E i \in WorkerIds : WorkerProcess(i)
    \/ \E i \in WorkerIds : WorkerExit(i)
    \/ GitBranch
    \/ GitSymbolicRef
    \/ RegMkdirMeta
    \/ RegWriteHEAD
    \/ RegWriteCommondir
    \/ RegWriteGitdir
    \/ RegRemoveGitDir
    \/ RegWriteGitFile
    \/ RewritePass
    \/ setupRegularWorktree
    \/ createRegularWorktree

vars == <<mainVars, pvars, xvars>>

Spec == Init /\ [][Next]_vars

\* ---- what git makes of the result ------------------------------------------------
CompleteMeta(branch, wtPath) ==
    [exists |-> TRUE, HEAD |-> HeadFileContent(branch),
     commondir |-> CommondirContent, gitdir |-> GitdirContent(wtPath)]

\* The common directory git derives from an entry: commondir, relative to the entry.
CommonDirOf(id) == Resolve(WorktreeMetaDir(id), meta[id].commondir[1])

\* git rev-parse HEAD run in the worktree at path p: follow the pointer file to
\* the entry, the entry's HEAD to a branch, commondir to the ref store.
ResolveHEAD(p) ==
    LET ids == {id \in MetaIds : /\ fs[p][DotGit].kind = "file"
                                 /\ fs[p][DotGit].data = GitFileContent(id)
                                 /\ meta[id].exists}
    IN IF ids = {} THEN NoCommit
       ELSE LET id == CHOOSE i \in ids : TRUE
                bs == {b \in AllBranches : meta[id].HEAD = HeadFileContent(b)}
            IN IF bs = {} \/ meta[id].commondir = NoFile THEN NoCommit
               ELSE IF CommonDirOf(id) # GitDir(RepoPath) THEN NoCommit
               ELSE originRefs[CHOOSE b \in bs : TRUE]

\* git worktree list of the origin shows path p on branch b
ListsWorktree(p, b) ==
    \E id \in MetaIds : /\ Listed(id)
                        /\ meta[id].gitdir = GitdirContent(p)
                        /\ meta[id].HEAD = HeadFileContent(b)

CoWSucceeded == pc = "done" /\ result = "cow"

SameContent(tree, r) == tree[r].kind = SrcInfo(r).kind /\ tree[r].data = SrcInfo(r).data

\* ---- properties ----------------------------------------------------------------------

\* C1: after a success through the CoW path the new branch exists in the ref store
\* shared with the origin and points at the base commit, and HEAD resolved inside
\* the new worktree is that commit.
C1_BranchAtBase ==
    CoWSucceeded => /\ originRefs[w.branch] = w.base
                    /\ ResolveHEAD(w.path) = w.base

\* C2: after a success through the CoW path every file of the source working tree
\* is in the destination with the same content, except that the rewrite pass may
\* have replaced the source root in an ignored text file.
C2_SourceFilesPreserved ==
    CoWSucceeded =>
       \A r \in src \ Under(DotGit) :
          SrcInfo(r).kind = "file" =>
             /\ Dest[r].kind = "file"
             /\ \/ Dest[r].data = SrcInfo(r).data
                \/ /\ ~w.noRewrite /\ GitIgnoreMatch(r)
                   /\ Dest[r].data = ReplaceAll(SrcInfo(r).data, RepoPath, w.path)

\* C3: whenever a clone strategy returns success, the destination holds exactly the
\* entries of the source tree, each of the same kind and with the same content.
C3_CloneIsExact ==
    pc = "branch" =>
       \A r \in TreePaths :
          IF r \in src THEN SameContent(Dest, r) ELSE Dest[r].kind = "none"

\* C4: when a task of the file-level pool has failed, the clone does not return
\* success, whatever the interleaving of the workers and the caller's check.
C4_TaskFailureReported ==
    (poolKind = "cow" /\ pc = "branch") =>
       \A i \in WorkerIds : workers[i].st # "failed"

\* C5: when a clone strategy has failed, nothing of the destination is left by the
\* time the next strategy (the native fallback) starts.
C5_FailedCloneRemoved ==
    (pc = "fallback" /\ failStage = "clone") => ~Exists(Dest)

\* C6: when a step of the registration protocol has failed, the destination is gone
\* and the origin's worktree administration holds no entry of the failed
\* registration by the time the native fallback starts.
C6_NoHalfRegistration ==
    (pc = "fallback" /\ failStage \in {"branch", "symref", "register"}) =>
       /\ ~Exists(Dest)
       /\ meta[w.branch] = NoMeta

\* C7: the registration protocol runs in the order branch, symbolic-ref, origin-side
\* entry, replacement of .git; a step runs only after every earlier one worked, and
\* the destination's .git directory is not removed (with the destination kept)
\* before the origin-side entry is completely written.
C7_ProtocolOrder ==
    [][ w.path \in WtPaths =>
        LET d  == fs[w.path]
            d2 == fs'[w.path]
            branched  == localRefs[w.branch] = w.base /\ w.base # NoCommit
            repointed == d[GitHEAD].kind = "file" /\ d[GitHEAD].data = HeadFileContent(w.branch)
            written   == meta[w.branch] = CompleteMeta(w.branch, w.path)
        IN /\ (localRefs[w.branch] = NoCommit /\ localRefs'[w.branch] # NoCommit)
                 => /\ localRefs'[w.branch] = w.base
                    /\ d[GitHEAD].data = SrcInfo(GitHEAD).data
           /\ (d[GitHEAD].kind = "file" /\ d2[GitHEAD].kind = "file"
                 /\ d2[GitHEAD].data # d[GitHEAD].data /\ pc = "symref")
                 => branched
           /\ (meta' # meta /\ pc \notin {"worktree_remove", "fallback", "caller_fallback"})
                 => branched /\ repointed
           /\ (d[DotGit].kind = "dir" /\ d2[DotGit].kind # "dir" /\ Exists(d2))
                 => branched /\ repointed /\ written
           /\ (d[DotGit].kind # "file" /\ d2[DotGit].kind = "file"
                 /\ pc \notin {"fallback", "caller_fallback"})
                 => d[DotGit].kind = "none" /\ written
      ]_vars

\* C7 witness: a registration has run to its end.
C7_Registered ==
    /\ pc = "rewrite"
    /\ Dest[DotGit] = File(GitFileContent(w.branch), 420)
    /\ meta[w.branch] = CompleteMeta(w.branch, w.path)

\* C8: while a worktree at another path is registered under the branch name, a
\* second registration for that name does not succeed and the first entry's HEAD,
\* commondir and gitdir still name the first worktree.
C8_SecondRegistrationFails ==
    \A p \in WtPaths \ {w.path} :
       (fs[p][DotGit].kind = "file" /\ fs[p][DotGit].data = GitFileContent(w.branch)) =>
          /\ meta[w.branch] = CompleteMeta(w.branch, p)
          /\ ~CoWSucceeded

\* C9: after registerWorktreeManually succeeds the entry's gitdir names
\* <destination>/.git, <destination>/.git is a pointer file naming that entry, the
\* entry's HEAD is refs/heads/<branch>, and a worktree listing of the origin shows
\* the destination with that branch.
C9_PointersAndListing ==
    pc = "rewrite" =>
       /\ meta[w.branch].gitdir = GitdirContent(w.path)
       /\ Dest[DotGit].kind = "file"
       /\ Dest[DotGit].data = GitFileContent(w.branch)
       /\ meta[w.branch].HEAD = HeadFileContent(w.branch)
       /\ ListsWorktree(w.path, w.branch)

\* C10: the commondir file of every entry resolves, relative to the entry's
\* directory, to the origin's .git directory.
C10_CommondirResolves ==
    \A id \in MetaIds :
       meta[id].commondir # NoFile => CommonDirOf(id) = GitDir(RepoPath)

\* C11: within CreateCoWWorktree nothing is removed (no registration of the origin,
\* no entry of the destination) before the base commit is captured, and the captured
\* base commit does not change for the rest of the request.
C11_BaseCapturedFirst ==
    [][ (w.path \in WtPaths /\ pc \notin {"idle", "done", "caller_fallback"}) =>
          /\ ( \/ \E id \in MetaIds : meta[id].exists /\ ~meta'[id].exists
               \/ \E r \in TreePaths : fs[w.path][r].kind # "none"
                                         /\ fs'[w.path][r].kind = "none" )
                => w.base # NoCommit
          /\ w.base # NoCommit => w'.base = w.base
      ]_vars

\* C12: CloneDirectoryParallel first issues one whole-tree clone; when that works it
\* returns success with no pool started, and otherwise it goes on to the file-level
\* fallback rather than returning an error.
C12_AtomicThenFallback ==
    [][ (pc = "clone" /\ w.mode = "parallel" /\ pc' # pc) =>
          \/ /\ pc' = "branch"
             /\ fs'[w.path] = SrcTreeOf(src)
             /\ poolKind' = "none"
          \/ pc' = "pf_start"
      ]_vars

\* C13: within one request git worktree add is not run a second time after the
\* native creation inside CreateCoWWorktree has failed.
C13_NativeTriedOnce ==
    [][ (pc = "caller_fallback" /\ pc' = "done") => failStage = "none" ]_vars

\* CreateCoWWorktree returns an error in this step.
CoWReturnsError == pc \in {"rev_parse", "fallback"} /\ pc' = "caller_fallback"

\* C14 as stated: CreateCoWWorktree returns an error only when the native fallback
\* itself has failed.
C14_ErrorOnlyFromFallback ==
    [][ CoWReturnsError => pc = "fallback" ]_vars

\* C14 amended: CreateCoWWorktree returns an error only when the origin's HEAD
\* commit could not be obtained (nothing has been cloned or registered then) or
\* when the native fallback itself has failed; a failure of the removal, clone,
\* branch, symbolic-ref or registration stage always leads to the native fallback.
C14_ErrorFromHeadOrFallback ==
    [][ /\ CoWReturnsError =>
             \/ pc = "fallback"
             \/ pc = "rev_parse" /\ originHead = NoCommit /\ w.base = NoCommit
        /\ (failStage = "none" /\ failStage' # "none") => pc' = "fallback"
        /\ (pc \notin {"idle", "done", "rev_parse", "fallback", "rewrite", "caller_fallback"})
              => result' = result
      ]_vars

\* C14 witness: a stage of the CoW setup failed, the native fallback failed as
\* well, and CreateCoWWorktree has returned the error.
C14_FallbackFailed ==
    pc = "caller_fallback" /\ failStage \in {"clone", "register"} /\ result = "error"

\* C15: once clone and registration have succeeded the rewrite stage ends the
\* setup with success, whether the pass worked or failed: the destination and its
\* registration stay, and no fallback follows.
C15_RewriteNeverFatal ==
    [][ (pc = "rewrite" /\ pc' # pc) =>
          /\ pc' = "done" /\ result' = "cow"
          /\ failStage' = "none"
          /\ Entries(fs'[w.path]) = Entries(fs[w.path])
          /\ fs'[w.path][DotGit] = fs[w.path][DotGit]
          /\ meta' = meta /\ originRefs' = originRefs
      ]_vars

\* C15 witness: the creation succeeded through CoW although the rewrite pass
\* stopped before every rewritable file was rewritten.
C15_RewriteFailedStillCoW ==
    CoWSucceeded /\ ~w.noRewrite /\ Rewritable # {}

\* ---- the worker pools and their scaling controllers ------------------------------
\* CoWPool with CoWPoolController, AtomicClonePool with AtomicCloneController and
\* WorkerPool (path rewriting) with PoolController share one shape.  Tasks are
\* counted, so that queue depths beyond workers x factor are reachable.
MaxTasks == 23
PoolQueueCap == 21
\* Completions between two ticks are counted up to DeltaCap; every threshold of
\* every controller lies below it.
DeltaCap == 3
\* processedFiles is counted up to ProcessedCap.
ProcessedCap == 3
\* Workers whose stop channel is closed and which have not returned yet: the
\* next removal is followed from the moment there are fewer than MaxStopped.
MaxStopped == 1
\* A walk that has more to submit than any bound.
Endless == MaxTasks + 1

PoolKinds == {"cow", "atomic", "rewrite"}

CoWQueueFactor == 10
AtomicQueueFactor == 5
RewriteQueueFactor == 5
CoWLowRate == 5
AtomicLowRate == 1
RewriteLowRate == 1
CoWCapFactor == 2
AtomicCapFactor == 2
RewriteCapFactor == 4
\* The controller samples every 500 ms and adjusts at most once a second.
TicksPerSecond == 2
TicksLongAgo == 3

QueueFactor(k) == IF k = "cow" THEN CoWQueueFactor
                  ELSE IF k = "atomic" THEN AtomicQueueFactor ELSE RewriteQueueFactor
LowRate(k)     == IF k = "cow" THEN CoWLowRate
                  ELSE IF k = "atomic" THEN AtomicLowRate ELSE RewriteLowRate
CapFactor(k)   == IF k = "cow" THEN CoWCapFactor
                  ELSE IF k = "atomic" THEN AtomicCapFactor ELSE RewriteCapFactor

\* minWorkers := max(runtime.NumCPU()/2, 1)
minWorkers == IF NumCPU \div 2 > 1 THEN NumCPU \div 2 ELSE 1
\* maxWorkers := runtime.NumCPU() * 2 (clone pools) or * 4 (rewrite pool)
maxWorkers(k) == NumCPU * CapFactor(k)

\* len(activeWorkers), which workerCount mirrors: a worker that returned on a
\* failed task or a closed channel stays in the map.
Registered == pw.ri + pw.rb + pw.rx
\* worker goroutines that have not returned
Running == pw.ri + pw.rb + pw.si + pw.sb

\* pool.Start(); controller.Start(): NumCPU workers, a controller that has never
\* adjusted, an empty queue, and a walk that will submit pleft tasks.
PoolStarted ==
    /\ ExtraIdle
    /\ src = EmptyTree
    /\ originHead = NoCommit
    /\ RequestIdle
    /\ pk \in PoolKinds
    /\ ppc = "submit"
    /\ pq = 0
    /\ pclosed = FALSE
    /\ perr = 0
    /\ perrClosed = FALSE
    /\ pdone = 0
    /\ pw = [NoWorkers EXCEPT !.ri = NumCPU]
    /\ cdec = "idle"
    /\ cdelta = 0
    /\ csince = TicksLongAgo
    /\ cstopped = FALSE
    /\ cexited = FALSE
    /\ pfaults = 0

\* The owner's walk finds nothing or MaxTasks entries.
PoolInit == PoolStarted /\ pleft \in {0, MaxTasks}

\* pool.Submit(task): a send on the buffered input channel, which blocks when full.
PoolSubmit ==
    /\ ppc = "submit"
    /\ pleft > 0
    /\ pq < PoolQueueCap
    /\ pq' = pq + 1
    /\ pleft' = IF pleft = Endless THEN pleft ELSE pleft - 1
    /\ UNCHANGED <<pk, ppc, pclosed, perr, perrClosed, pdone, pw,
                   cdec, cdelta, csince, cstopped, cexited, pfaults>>
    /\ UNCHANGED <<mainVars, xvars>>

\* The walk is over.  The clone functions close the input channel themselves
\* (close(pool.fileChan), close(pool.taskChan)); the rewrite function does not.
PoolWalkDone ==
    /\ ppc = "submit"
    /\ pleft = 0
    /\ pclosed' = (pk # "rewrite")
    /\ ppc' = "check"
    /\ UNCHANGED <<pk, pq, pleft, perr, perrClosed, pdone, pw,
                   cdec, cdelta, csince, cstopped, cexited, pfaults>>
    /\ UNCHANGED <<mainVars, xvars>>

\* select { case err := <-pool.Error(): ... default: }, then the function returns
\* and its deferred clean-up runs.
PoolCheckErrors ==
    /\ ppc = "check"
    /\ perr' = 0
    /\ ppc' = "controller_stop"
    /\ UNCHANGED <<pk, pq, pleft, pclosed, perrClosed, pdone, pw,
                   cdec, cdelta, csince, cstopped, cexited, pfaults>>
    /\ UNCHANGED <<mainVars, xvars>>

\* controller.Stop(): close(c.done).  It does not wait for controlLoop to return.
ControllerStop ==
    /\ ppc = "controller_stop"
    /\ cstopped' = TRUE
    /\ ppc' = "pool_stop"
    /\ UNCHANGED <<pk, pq, pleft, pclosed, perr, perrClosed, pdone, pw,
                   cdec, cdelta, csince, cexited, pfaults>>
    /\ UNCHANGED <<mainVars, xvars>>

\* pool.Stop(), first part: WorkerPool.Stop closes fileChan; CoWPool.Stop and
\* AtomicClonePool.Stop go straight to wg.Wait().
PoolStopBegin ==
    /\ ppc = "pool_stop"
    /\ pclosed' = (pclosed \/ pk = "rewrite")
    /\ ppc' = "wait"
    /\ UNCHANGED <<pk, pq, pleft, perr, perrClosed, pdone, pw,
                   cdec, cdelta, csince, cstopped, cexited, pfaults>>
    /\ UNCHANGED <<mainVars, xvars>>

\* pool.Stop(), second part: wg.Wait() returns when no worker goroutine is left,
\* then close(p.errChan).
PoolStopFinish ==
    /\ ppc = "wait"
    /\ Running = 0
    /\ perrClosed' = TRUE
    /\ ppc' = "returned"
    /\ UNCHANGED <<pk, pq, pleft, pclosed, perr, pdone, pw,
                   cdec, cdelta, csince, cstopped, cexited, pfaults>>
    /\ UNCHANGED <<mainVars, xvars>>

\* worker: case task, ok := <-chan with a task.  A worker whose stop channel is
\* closed may still take one, select choosing among ready cases at random.
PoolWorkerTake(stopped) ==
    /\ ppc # "panic"
    /\ pq > 0
    /\ IF stopped THEN pw.si > 0 ELSE pw.ri > 0
    /\ pq' = pq - 1
    /\ pw' = IF stopped THEN [pw EXCEPT !.si = @ - 1, !.sb = @ + 1]
                        ELSE [pw EXCEPT !.ri = @ - 1, !.rb = @ + 1]
    /\ UNCHANGED <<pk, ppc, pleft, pclosed, perr, perrClosed, pdone,
                   cdec, cdelta, csince, cstopped, cexited, pfaults>>
    /\ UNCHANGED <<mainVars, xvars>>

\* worker: the task succeeded, atomic.AddInt64(&p.processed..., 1)
PoolWorkerDone(stopped) ==
    /\ ppc # "panic"
    /\ IF stopped THEN pw.sb > 0 ELSE pw.rb > 0
    /\ pdone' = IF pdone < ProcessedCap THEN pdone + 1 ELSE pdone
    /\ cdelta' = IF cdelta < DeltaCap THEN cdelta + 1 ELSE cdelta
    /\ pw' = IF stopped THEN [pw EXCEPT !.sb = @ - 1, !.si = @ + 1]
                        ELSE [pw EXCEPT !.rb = @ - 1, !.ri = @ + 1]
    /\ UNCHANGED <<pk, ppc, pq, pleft, pclosed, perr, perrClosed,
                   cdec, csince, cstopped, cexited, pfaults>>
    /\ UNCHANGED <<mainVars, xvars>>

\* worker: the task failed: select { case p.errChan <- err: default: }; return.
\* The worker stays in activeWorkers.  On a closed errChan the send panics and
\* the process is gone.
PoolWorkerFail(stopped) ==
    /\ ppc # "panic"
    /\ pfaults < MaxFaults
    /\ IF stopped THEN pw.sb > 0 ELSE pw.rb > 0
    /\ pfaults' = pfaults + 1
    /\ IF perrClosed
       THEN ppc' = "panic" /\ UNCHANGED perr
       ELSE perr' = 1 /\ UNCHANGED ppc
    /\ pw' = IF stopped THEN [pw EXCEPT !.sb = @ - 1]
                        ELSE [pw EXCEPT !.rb = @ - 1, !.rx = @ + 1]
    /\ UNCHANGED <<pk, pq, pleft, pclosed, perrClosed, pdone,
                   cdec, cdelta, csince, cstopped, cexited>>
    /\ UNCHANGED <<mainVars, xvars>>

\* worker: if !ok { return } on the closed and drained input channel, or
\* case <-stopChan: return.
PoolWorkerReturn(stopped) ==
    /\ ppc # "panic"
    /\ IF stopped THEN pw.si > 0 ELSE pw.ri > 0 /\ pclosed /\ pq = 0
    /\ pw' = IF stopped THEN [pw EXCEPT !.si = @ - 1]
                        ELSE [pw EXCEPT !.ri = @ - 1, !.rx = @ + 1]
    /\ UNCHANGED <<pk, ppc, pq, pleft, pclosed, perr, perrClosed, pdone,
                   cdec, cdelta, csince, cstopped, cexited, pfaults>>
    /\ UNCHANGED <<mainVars, xvars>>

adjustWorkers_NeverAdd(k, workersNow, depth, completed, recent) ==
    IF recent THEN "none"
    ELSE IF depth = 0 /\ completed * TicksPerSecond < LowRate(k)
         THEN "remove"
    ELSE "none"

adjustWorkers_Unlimited(k, workersNow, depth, completed, recent) ==
    IF depth > workersNow * QueueFactor(k) /\ workersNow < maxWorkers(k) /\ completed > 0
         THEN "add"
    ELSE IF depth = 0 /\ completed * TicksPerSecond < LowRate(k)
         THEN "remove"
    ELSE "none"

\* adjustWorkers(stats, rate) as a decision.  rate is the tasks completed since
\* the last tick over the tick's length.
adjustWorkers(k, workersNow, depth, completed, recent) ==
    IF recent THEN "none"
    ELSE IF depth > workersNow * QueueFactor(k) /\ workersNow < maxWorkers(k) /\ completed > 0
         THEN "add"
    ELSE IF depth = 0 /\ completed * TicksPerSecond < LowRate(k)
         THEN "remove"
    ELSE "none"

\* controlLoop: case <-ticker.C: stats := c.pool.GetStats(); rate; lastProcessed;
\* the decision of adjustWorkers.  The second tick after an adjustment falls on
\* either side of the one-second limit.
ControllerTick ==
    /\ ppc # "panic"
    /\ ~cexited
    /\ cdec = "idle"
    /\ LET since == IF csince < TicksLongAgo THEN csince + 1 ELSE csince
       IN /\ csince' = since
          /\ \E early \in BOOLEAN :
                /\ (since # TicksPerSecond => ~early)
                /\ cdec' = adjustWorkers(pk, Registered, pq, cdelta,
                                         since < TicksPerSecond \/ early)
    /\ cdelta' = 0
    /\ UNCHANGED <<pk, ppc, pq, pleft, pclosed, perr, perrClosed, pdone, pw,
                   cstopped, cexited, pfaults>>
    /\ UNCHANGED <<mainVars, xvars>>

\* AddWorker: activeWorkers[id] = stopChan; workerCount++; wg.Add(1); go worker.
AddWorker == [pw EXCEPT !.ri = @ + 1]

\* RemoveWorker: refused at minWorkers; else one entry of activeWorkers has its
\* stop channel closed and is deleted, whatever its goroutine is doing.
RemoveWorker(class) ==
    IF class = "ri" THEN [pw EXCEPT !.ri = @ - 1, !.si = @ + 1]
    ELSE IF class = "rb" THEN [pw EXCEPT !.rb = @ - 1, !.sb = @ + 1]
    ELSE [pw EXCEPT !.rx = @ - 1]

\* RemoveWorker: if len(p.activeWorkers) <= minWorkers { return false }
RemoveRefused_Never == FALSE

RemoveRefused == Registered <= minWorkers

\* adjustWorkers, the call it decided on; lastAdjust is set when the count changed.
ControllerAdjust ==
    /\ ppc # "panic"
    /\ cdec # "idle"
    /\ cdec' = "idle"
    /\ \/ /\ cdec = "add"
          /\ pw' = AddWorker
          /\ csince' = 0
       \/ /\ cdec = "remove"
          /\ ~RemoveRefused
          /\ \E class \in {"ri", "rb", "rx"} :
                /\ pw[class] > 0
                /\ (class # "rx" => pw.si + pw.sb < MaxStopped)
                /\ pw' = RemoveWorker(class)
          /\ csince' = 0
       \/ /\ cdec = "remove"
          /\ RemoveRefused
          /\ UNCHANGED <<pw, csince>>
       \/ /\ cdec = "none"
          /\ UNCHANGED <<pw, csince>>
    /\ UNCHANGED <<pk, ppc, pq, pleft, pclosed, perr, perrClosed, pdone,
                   cdelta, cstopped, cexited, pfaults>>
    /\ UNCHANGED <<mainVars, xvars>>

\* controlLoop: case <-c.done: return
ControllerExit ==
    /\ ppc # "panic"
    /\ cstopped
    /\ ~cexited
    /\ cdec = "idle"
    /\ cexited' = TRUE
    /\ UNCHANGED <<pk, ppc, pq, pleft, pclosed, perr, perrClosed, pdone, pw,
                   cdec, cdelta, csince, cstopped, pfaults>>
    /\ UNCHANGED <<mainVars, xvars>>

PoolNext ==
    \/ PoolSubmit
    \/ PoolWalkDone
    \/ PoolCheckErrors
    \/ ControllerStop
    \/ PoolStopBegin
    \/ PoolStopFinish
    \/ \E stopped \in BOOLEAN : PoolWorkerTake(stopped)
    \/ \E stopped \in BOOLEAN : PoolWorkerDone(stopped)
    \/ \E stopped \in BOOLEAN : PoolWorkerFail(stopped)
    \/ \E stopped \in BOOLEAN : PoolWorkerReturn(stopped)
    \/ ControllerTick
    \/ ControllerAdjust
    \/ ControllerExit

SpecPool == PoolInit /\ [][PoolNext]_vars

\* A clone pool while its owner is still walking a tree with no end in sight: the
\* owner submits at its own pace; the controller's goroutine keeps running (its
\* ticker fires, and a decision taken is carried out); a task in hand ends; and a
\* worker whose stop channel is closed does not win the task case of its select
\* for ever.
FairInit == PoolStarted /\ pk \in {"cow", "atomic"} /\ pleft = Endless

FairNext ==
    \/ PoolSubmit
    \/ \E stopped \in BOOLEAN : PoolWorkerTake(stopped)
    \/ \E stopped \in BOOLEAN : PoolWorkerDone(stopped)
    \/ \E stopped \in BOOLEAN : PoolWorkerFail(stopped)
    \/ \E stopped \in BOOLEAN : PoolWorkerReturn(stopped)
    \/ ControllerTick
    \/ ControllerAdjust

SpecPoolFair ==
    /\ FairInit
    /\ [][FairNext]_vars
    /\ WF_vars(ControllerTick)
    /\ WF_vars(ControllerAdjust)
    /\ \A stopped \in BOOLEAN : WF_vars(PoolWorkerDone(stopped))
    /\ SF_vars(PoolWorkerReturn(TRUE))

C17_AdjustmentRule ==
    [][ (pk \in PoolKinds) =>
          /\ ( Registered' # Registered =>
                 /\ cdec \in {"add", "remove"} /\ cdec' = "idle"
                 /\ csince' = 0
                 /\ Registered' = (IF cdec = "add" THEN Registered + 1 ELSE Registered - 1) )
          /\ ( (cdec = "idle" /\ cdec' = "add") =>
                 /\ pq > Registered * (IF pk = "cow" THEN 10 ELSE 5)
                 /\ Registered < NumCPU * (IF pk = "rewrite" THEN 4 ELSE 2)
                 /\ cdelta > 0
                 /\ csince' >= 2 )
          /\ ( (cdec = "idle" /\ cdec' = "remove") =>
                 /\ pq = 0
                 /\ cdelta * 2 < (IF pk = "cow" THEN 5 ELSE 1)
                 /\ csince' >= 2 )
          /\ ( (cdec = "none" /\ cdec' = "idle") => (pw' = pw /\ csince' = csince) ) ]_vars

\* C17 witness: the CoW pool's controller has added one worker to the initial ones
\* and decides on a removal later.
C17_AddedThenRemoving ==
    pk = "cow" /\ Registered = NumCPU + 1 /\ cdec = "remove"

\* C18: while a started pool has an empty queue and no completed task, no step of
\* the controller decides on or makes an adjustment: the registered worker count
\* stays at NumCPU.
C18_StartupNoAdjustment ==
    [][ (pk \in PoolKinds /\ pq = 0 /\ pdone = 0 /\ Registered = NumCPU) =>
          /\ cdec' \notin {"add", "remove"}
          /\ Registered' = NumCPU ]_vars

\* C19: if from some point on every tick of the controller finds a backlog (queue
\* depth > workers x K) and tasks completed since the tick before, the registered
\* worker count eventually exceeds NumCPU; and if from some point on the queue is
\* empty for good, the count eventually is max(NumCPU/2, 1) and stays there.
C19_ScalesUpAndDown ==
    /\ ( <>[][ (cdec = "idle" /\ cdec' # "idle") =>
                 (pq > Registered * QueueFactor(pk) /\ cdelta > 0) ]_vars )
          => <>(Registered > NumCPU)
    /\ <>[](pq = 0)
          => <>[](Registered = (IF NumCPU \div 2 > 1 THEN NumCPU \div 2 ELSE 1))

\* C19 witness: with an endless walk the count has risen above NumCPU, the queue
\* has drained since, and the controller is about to take a worker away.
C19_GrownThenDrained ==
    pleft = Endless /\ Registered > NumCPU /\ pq = 0 /\ cdec = "remove"

\* C20: the step that begins Stop closes the input queue; the error channel is
\* closed only after that, with no worker goroutine left; and no worker goroutine
\* runs while the error channel is closed.
C20_StopOrder ==
    /\ [][ (ppc = "pool_stop" /\ ppc' = "wait") => (~pclosed /\ pclosed') ]_vars
    /\ [][ (~perrClosed /\ perrClosed') => (pclosed /\ Running = 0) ]_vars
    /\ [](perrClosed => Running = 0)

\* ---- one pool, task by task -------------------------------------------------------
\* CoWPool (AtomicClonePool and WorkerPool have the same worker loop) with its
\* tasks and workers told apart.  AddWorker and RemoveWorker are called by the
\* controller goroutine, which nothing waits for: they may come at any moment.
NumTasks   == 3
MaxAdded   == 1
TaskFaults == 2

TaskIds     == 1..NumTasks
PoolWorkers == 1..(NumCPU + MaxAdded)

FreshWorker == [st |-> "idle", task |-> 0, active |-> TRUE, stop |-> FALSE,
                failed |-> FALSE, late |-> FALSE]
NotStarted  == [st |-> "none", task |-> 0, active |-> FALSE, stop |-> FALSE,
                failed |-> FALSE, late |-> FALSE]

NoCounts == [copiedFiles |-> 0, skippedFiles |-> 0, processedFiles |-> 0]

\* atomic.AddInt64(&p.<counter>, 1); "none": the task ends before any counter
AddInt64(cnt, counter) ==
    IF counter = "none" THEN cnt ELSE [cnt EXCEPT ![counter] = @ + 1]

\* len(p.activeWorkers)
ActiveWorkers == {i \in PoolWorkers : tw[i].active}

\* pool.Start(); controller.Start()
TasksInit ==
    /\ NothingRunning
    /\ FnIdle
    /\ RewriteIdle
    /\ DepthIdle
    /\ tpc = "submit"
    /\ tnext = 1
    /\ tq = << >>
    /\ tclosed = FALSE
    /\ terr = << >>
    /\ terrClosed = FALSE
    /\ tlog = << >>
    /\ tgot = 0
    /\ ttask = [t \in TaskIds |-> [taken |-> 0, ran |-> 0]]
    /\ tw = [i \in PoolWorkers |-> IF i <= NumCPU THEN FreshWorker ELSE NotStarted]
    /\ tcnt = NoCounts

\* pool.Submit(task)
TaskSubmit ==
    /\ tpc = "submit"
    /\ tnext <= NumTasks
    /\ Len(tq) < QueueCap
    /\ tq' = Append(tq, tnext)
    /\ tnext' = tnext + 1
    /\ UNCHANGED <<tpc, tclosed, terr, terrClosed, tlog, tgot, ttask, tw>>
    /\ UNCHANGED tcnt
    /\ UNCHANGED <<mainVars, pvars, fvars, rvars, dvars>>

\* close(pool.fileChan) after the walk
TaskClose ==
    /\ tpc = "submit"
    /\ tnext > NumTasks
    /\ tclosed' = TRUE
    /\ tpc' = "check"
    /\ UNCHANGED <<tnext, tq, terr, terrClosed, tlog, tgot, ttask, tw>>
    /\ UNCHANGED tcnt
    /\ UNCHANGED <<mainVars, pvars, fvars, rvars, dvars>>

\* select { case err := <-pool.Error(): ...; default: }
TaskCheckErrors ==
    /\ tpc = "check"
    /\ IF terr # << >>
       THEN tgot' = Head(terr) /\ terr' = Tail(terr)
       ELSE UNCHANGED <<tgot, terr>>
    /\ tpc' = "stop"
    /\ UNCHANGED <<tnext, tq, tclosed, terrClosed, tlog, ttask, tw>>
    /\ UNCHANGED tcnt
    /\ UNCHANGED <<mainVars, pvars, fvars, rvars, dvars>>

\* deferred controller.Stop(); pool.Stop(): wg.Wait(); close(p.errChan)
TaskStop ==
    /\ tpc = "stop"
    /\ \A i \in PoolWorkers : tw[i].st \in {"none", "returned"}
    /\ terrClosed' = TRUE
    /\ tpc' = "returned"
    /\ UNCHANGED <<tnext, tq, tclosed, terr, tlog, tgot, ttask, tw>>
    /\ UNCHANGED tcnt
    /\ UNCHANGED <<mainVars, pvars, fvars, rvars, dvars>>

\* AddWorker
TaskAddWorker ==
    /\ tpc # "panic"
    /\ \E i \in PoolWorkers :
          /\ tw[i].st = "none"
          /\ \A j \in PoolWorkers : j < i => tw[j].st # "none"
          /\ tw' = [tw EXCEPT ![i] = FreshWorker]
    /\ UNCHANGED <<tpc, tnext, tq, tclosed, terr, terrClosed, tlog, tgot, ttask>>
    /\ UNCHANGED tcnt
    /\ UNCHANGED <<mainVars, pvars, fvars, rvars, dvars>>

\* A removal that stops the goroutine on the spot, task in hand or not.
TaskRemoveWorker_Kills(i) ==
    /\ tpc # "panic"
    /\ tw[i].active
    /\ Cardinality(ActiveWorkers) > minWorkers
    /\ tw' = [tw EXCEPT ![i].active = FALSE, ![i].stop = TRUE, ![i].st = "returned"]
    /\ UNCHANGED <<tpc, tnext, tq, tclosed, terr, terrClosed, tlog, tgot, ttask>>
    /\ UNCHANGED tcnt
    /\ UNCHANGED <<mainVars, pvars, fvars, rvars, dvars>>

\* RemoveWorker: refused at minWorkers; else close(stopChan) and delete the entry
\* of one worker, whatever its goroutine is doing.
TaskRemoveWorker(i) ==
    /\ tpc # "panic"
    /\ tw[i].active
    /\ Cardinality(ActiveWorkers) > minWorkers
    /\ tw' = [tw EXCEPT ![i].active = FALSE, ![i].stop = TRUE]
    /\ UNCHANGED <<tpc, tnext, tq, tclosed, terr, terrClosed, tlog, tgot, ttask>>
    /\ UNCHANGED tcnt
    /\ UNCHANGED <<mainVars, pvars, fvars, rvars, dvars>>

\* worker: case task, ok := <-p.fileChan, with a task in the buffer
TaskTake(i) ==
    /\ tpc # "panic"
    /\ tw[i].st = "idle"
    /\ tq # << >>
    /\ tw' = [tw EXCEPT ![i].st = "busy", ![i].task = Head(tq)]
    /\ ttask' = [ttask EXCEPT ![Head(tq)].taken = @ + 1]
    /\ tq' = Tail(tq)
    /\ UNCHANGED <<tpc, tnext, tclosed, terr, terrClosed, tlog, tgot>>
    /\ UNCHANGED tcnt
    /\ UNCHANGED <<mainVars, pvars, fvars, rvars, dvars>>

\* worker: processCoWTask returned nil.  It has counted the entry as copied (a
\* directory, a cloned file, a symlink) or as skipped (a file copied byte by
\* byte, a special file).
TaskDone(i) ==
    /\ tpc # "panic"
    /\ tw[i].st = "busy"
    /\ tw' = [tw EXCEPT ![i].st = "counting", ![i].late = (@ \/ tw[i].stop)]
    /\ ttask' = [ttask EXCEPT ![tw[i].task].ran = @ + 1]
    /\ \E counter \in {"copiedFiles", "skippedFiles"} : tcnt' = AddInt64(tcnt, counter)
    /\ UNCHANGED <<tpc, tnext, tq, tclosed, terr, terrClosed, tlog, tgot>>
    /\ UNCHANGED <<mainVars, pvars, fvars, rvars, dvars>>

\* worker: atomic.AddInt64(&p.processedFiles, 1); back to the select
TaskProcessed(i) ==
    /\ tpc # "panic"
    /\ tw[i].st = "counting"
    /\ tw' = [tw EXCEPT ![i].st = "idle"]
    /\ tcnt' = AddInt64(tcnt, "processedFiles")
    /\ UNCHANGED <<tpc, tnext, tq, tclosed, terr, terrClosed, tlog, tgot, ttask>>
    /\ UNCHANGED <<mainVars, pvars, fvars, rvars, dvars>>

\* A failing task that is counted as processed all the same.
TaskFail_Counted(i) ==
    /\ tpc # "panic"
    /\ tw[i].st = "busy"
    /\ Len(tlog) < TaskFaults
    /\ ttask' = [ttask EXCEPT ![tw[i].task].ran = @ + 1]
    /\ tlog' = Append(tlog, tw[i].task)
    /\ tw' = [tw EXCEPT ![i].st = "returned", ![i].failed = TRUE,
                        ![i].late = (@ \/ tw[i].stop)]
    /\ IF terrClosed
       THEN tpc' = "panic" /\ UNCHANGED terr
       ELSE /\ terr' = IF Len(terr) < 1 THEN Append(terr, tw[i].task) ELSE terr
            /\ UNCHANGED tpc
    /\ \E counter \in {"none", "copiedFiles", "skippedFiles"} :
          tcnt' = AddInt64(AddInt64(tcnt, counter), "processedFiles")
    /\ UNCHANGED <<tnext, tq, tclosed, terrClosed, tgot>>
    /\ UNCHANGED <<mainVars, pvars, fvars, rvars, dvars>>

\* worker: the task failed: select { case p.errChan <- err: default: }; return.
\* A send on a closed channel panics, in a select too.  processCoWTask fails
\* before any counter (MkdirAll, Readlink), after copiedFiles (os.Symlink) or
\* after skippedFiles (regularCopy).
TaskFail(i) ==
    /\ tpc # "panic"
    /\ tw[i].st = "busy"
    /\ Len(tlog) < TaskFaults
    /\ ttask' = [ttask EXCEPT ![tw[i].task].ran = @ + 1]
    /\ tlog' = Append(tlog, tw[i].task)
    /\ tw' = [tw EXCEPT ![i].st = "returned", ![i].failed = TRUE,
                        ![i].late = (@ \/ tw[i].stop)]
    /\ IF terrClosed
       THEN tpc' = "panic" /\ UNCHANGED terr
       ELSE /\ terr' = IF Len(terr) < 1 THEN Append(terr, tw[i].task) ELSE terr
            /\ UNCHANGED tpc
    /\ \E counter \in {"none", "copiedFiles", "skippedFiles"} :
          tcnt' = AddInt64(tcnt, counter)
    /\ UNCHANGED <<tnext, tq, tclosed, terrClosed, tgot>>
    /\ UNCHANGED <<mainVars, pvars, fvars, rvars, dvars>>

\* worker: if !ok { return } on the closed and drained channel, or case <-stop
TaskReturn(i) ==
    /\ tpc # "panic"
    /\ tw[i].st = "idle"
    /\ tw[i].stop \/ (tclosed /\ tq = << >>)
    /\ tw' = [tw EXCEPT ![i].st = "returned"]
    /\ UNCHANGED <<tpc, tnext, tq, tclosed, terr, terrClosed, tlog, tgot, ttask>>
    /\ UNCHANGED tcnt
    /\ UNCHANGED <<mainVars, pvars, fvars, rvars, dvars>>

TasksNext ==
    \/ TaskSubmit
    \/ TaskClose
    \/ TaskCheckErrors
    \/ TaskStop
    \/ TaskAddWorker
    \/ \E i \in PoolWorkers : TaskRemoveWorker(i)
    \/ \E i \in PoolWorkers : TaskTake(i)
    \/ \E i \in PoolWorkers : TaskDone(i)
    \/ \E i \in PoolWorkers : TaskProcessed(i)
    \/ \E i \in PoolWorkers : TaskFail(i)
    \/ \E i \in PoolWorkers : TaskReturn(i)

SpecTasks == TasksInit /\ [][TasksNext]_vars

\* ---- C21 ----------------------------------------------------------------------
\* What a failing task leaves behind, the crash set aside: the error channel
\* never holds more than one error, a worker whose task failed has returned
\* and holds no task, the error the owner received is the first one a worker
\* tried to send, and a worker that was not told to stop returns from the
\* select only on the closed and drained queue.
FailureReportingButCrash ==
    /\ [](/\ Len(terr) <= 1
          /\ \A i \in PoolWorkers : tw[i].failed => tw[i].st = "returned"
          /\ tgot # 0 => (tlog # << >> /\ tgot = tlog[1]))
    /\ [][\A i \in PoolWorkers :
             (tw[i].st = "idle" /\ tw'[i].st = "returned" /\ ~tw[i].stop)
                => (tclosed /\ tq = << >>)]_vars

InQueue(t) == Cardinality({k \in 1..Len(tq) : tq[k] = t})

\* The workers that hold task t.
Holders(t) == {i \in PoolWorkers : tw[i].st = "busy" /\ tw[i].task = t}

RECURSIVE RunInOrder(_, _)
RunInOrder(tree, tasks) ==
    IF tasks = << >> THEN tree
    ELSE RunInOrder(processCoWTask(tree, Head(tasks)), Tail(tasks))

\* cloneDirectoryParallelFallback with a single worker and no failing task
SequentialClone == RunInOrder(MkdirAll(EmptyTree, Root, 493), WalkList)

\* C24: after a successful file-level clone in which no task failed, the
\* destination tree (entries, contents, and the mode of every directory and
\* file) is the one the tasks leave when they run in the order of the walk,
\* whatever the interleaving of the workers was.
C24_OrderIndependent ==
    (poolKind = "cow" /\ pc = "branch" /\ faults = 0) =>
       \A r \in TreePaths : Dest[r] = SequentialClone[r]

\* ---- one task of the file-level pool ----------------------------------------------
\* processCoWTask on one entry: the entry's type and permission bits, what is at
\* the destination path and at its parent beforehand, the process's umask, and
\* whether clonefile and the byte copy go through.
EntryTypes == {"dir", "file", "symlink", "other"}
TaskModes  == {420, 436, 448}      \* 0644, 0664, 0700
Umasks     == {0, 18}              \* 000, 022
SrcData    == << <<"src">> >>
OldData    == << <<"old">> >>

CoWTaskInputs ==
    {a \in [kind : EntryTypes, mode : TaskModes, umask : Umasks,
            parent : {"dir", "none", "file"}, dst : {"none", "dir", "file"},
            cloneOK : BOOLEAN, copyOK : BOOLEAN] :
        a.parent # "dir" => a.dst = "none"}

\* What is at task.DstPath before the task runs.
Before(a) ==
    CASE a.dst = "dir"  -> Dir(493)
      [] a.dst = "file" -> File(OldData, 384)
      [] OTHER          -> NoEntry

HasBit(n, b) == (n \div b) % 2 = 1

\* mode &^ umask on the nine permission bits: what open(2) and mkdir(2) give a
\* new entry.
RECURSIVE MaskFrom(_, _, _)
MaskFrom(m, u, b) ==
    IF b > 256 THEN 0
    ELSE (IF HasBit(m, b) /\ ~HasBit(u, b) THEN b ELSE 0) + MaskFrom(m, u, 2 * b)

Umasked(m, u) == MaskFrom(m, u, 1)

NothingDone(a) ==
    [err |-> FALSE, dst |-> Before(a), cloned |-> FALSE, copyTried |-> FALSE,
     copied |-> FALSE, copiedFiles |-> 0, skippedFiles |-> 0]

\* regularCopy: os.Open(src); os.OpenFile(dst, O_WRONLY|O_CREATE|O_TRUNC,
\* info.Mode()); srcFile.WriteTo(dstFile).  An existing file is truncated and
\* keeps its mode; a new one gets info.Mode() under the umask.
regularCopy(a, r) ==
    IF ~a.copyOK \/ a.dst = "dir"
    THEN [r EXCEPT !.err = TRUE, !.copyTried = TRUE]
    ELSE [r EXCEPT !.copyTried = TRUE, !.copied = TRUE,
                   !.dst = File(SrcData, IF a.dst = "file" THEN Before(a).mode
                                         ELSE Umasked(a.mode, a.umask))]

\* processCoWTask, as its code runs
processCoWTaskOn(a) ==
    LET r == NothingDone(a) IN
    IF a.kind = "dir"
    THEN \* os.MkdirAll(task.DstPath, task.Info.Mode())
         IF a.parent = "file" \/ a.dst = "file"
         THEN [r EXCEPT !.err = TRUE]
         ELSE [r EXCEPT !.copiedFiles = 1,
                        !.dst = IF a.dst = "dir" THEN Before(a)
                                ELSE Dir(Umasked(a.mode, a.umask))]
    ELSE IF a.parent = "file"
    THEN \* os.MkdirAll(filepath.Dir(task.DstPath), 0755) fails
         [r EXCEPT !.err = TRUE]
    ELSE IF a.kind = "file"
    THEN IF a.cloneOK /\ a.dst = "none"
         THEN [r EXCEPT !.cloned = TRUE, !.copiedFiles = 1, !.dst = File(SrcData, a.mode)]
         ELSE regularCopy(a, [r EXCEPT !.skippedFiles = 1])
    ELSE IF a.kind = "symlink"
    THEN \* os.Readlink(src); os.Symlink(target, dst) refuses an existing path
         IF a.dst # "none"
         THEN [r EXCEPT !.copiedFiles = 1, !.err = TRUE]
         ELSE [r EXCEPT !.copiedFiles = 1, !.dst = Symlink(SrcData)]
    ELSE [r EXCEPT !.skippedFiles = 1]

CoWTaskInit ==
    /\ NothingRunning
    /\ TasksIdle
    /\ RewriteIdle
    /\ DepthIdle
    /\ arg \in CoWTaskInputs
    /\ ret = "none"
    /\ called = FALSE

CallProcessCoWTask ==
    /\ ~called
    /\ arg \in CoWTaskInputs
    /\ ret' = processCoWTaskOn(arg)
    /\ called' = TRUE
    /\ UNCHANGED <<arg, mainVars, pvars, tvars, rvars, dvars>>

SpecCoWTask == CoWTaskInit /\ [][CallProcessCoWTask]_vars

\* C23: processCoWTask has a defined disposition for every entry type.  A
\* directory is created, and an existing directory is not an error.  A regular
\* file is cloned; when the clone fails it is byte-copied and the copy has the
\* source's content and permission bits; the task fails only if the copy was
\* tried and failed.  A symlink is recreated from its target and is neither
\* cloned nor copied.  Any other type is counted as skipped, nothing is cloned
\* or copied, the destination is untouched and the task succeeds.
C23_Disposition ==
    called =>
       LET a == arg
           r == ret
       IN /\ a.kind = "dir" =>
                /\ a.dst = "dir" => ~r.err
                /\ ~r.err => r.dst.kind = "dir"
                /\ ~r.cloned /\ ~r.copyTried
          /\ a.kind = "file" =>
                /\ r.cloned => (~r.err /\ r.dst = File(SrcData, a.mode))
                /\ ~r.cloned => (r.err \/ r.copied)
                /\ r.copied => r.dst = File(SrcData, a.mode)
                /\ r.err => (r.copyTried /\ ~r.copied)
          /\ a.kind = "symlink" =>
                /\ ~r.cloned /\ ~r.copyTried
                /\ ~r.err => r.dst = Symlink(SrcData)
          /\ a.kind = "other" =>
                /\ r.skippedFiles = 1
                /\ ~r.err
                /\ ~r.cloned /\ ~r.copyTried
                /\ r.dst = Before(a)

\* ---- findDirectoriesAtDepth on its own ----------------------------------------------
\* Trees three levels deep: two names on the first two levels, one on the third.
MaxTarget == 3
DeepPaths ==
    << <<"a">>, <<"a", "a">>, <<"a", "a", "a">>, <<"a", "b">>, <<"a", "b", "a">>,
       <<"b">>, <<"b", "a">>, <<"b", "a", "a">>, <<"b", "b">>, <<"b", "b", "a">> >>
DeepSet == {DeepPaths[i] : i \in 1..Len(DeepPaths)}

\* A tree gives every path its kind; an entry exists only inside a directory.
DeepTrees ==
    {t \in [DeepSet -> {"none", "dir", "file"}] :
        \A q \in DeepSet : (t[q] # "none" /\ Len(q) > 1) => t[Parent(q)] = "dir"}

FindDirsInputs == [tree : DeepTrees, targetDepth : 1..MaxTarget]

\* The walk callback that goes on below a directory at the target depth.
walkFn_NoSkip(kind, depth, targetDepth) ==
    IF kind # "dir" THEN "nil"
    ELSE IF depth = targetDepth THEN "append"
    ELSE IF depth > targetDepth THEN "SkipDir"
    ELSE "nil"

\* The walk callback of findDirectoriesAtDepth for an entry other than the
\* root: what it does with the entry and what it returns.
walkFn(kind, depth, targetDepth) ==
    IF kind # "dir" THEN "nil"
    ELSE IF depth = targetDepth THEN "appendSkipDir"
    ELSE IF depth > targetDepth THEN "SkipDir"
    ELSE "nil"

\* filepath.Walk in lexical order: the callback is called on every entry that
\* is not inside a directory for which it returned SkipDir.
RECURSIVE WalkDeep(_, _, _, _, _)
WalkDeep(list, tree, targetDepth, skipped, acc) ==
    IF list = << >> THEN acc
    ELSE LET q == Head(list)
             rest == Tail(list)
         IN IF tree[q] = "none" \/ (\E d \in skipped : IsPrefix(d, q))
            THEN WalkDeep(rest, tree, targetDepth, skipped, acc)
            ELSE LET out == walkFn(tree[q], Len(q), targetDepth)
                     seen == [acc EXCEPT !.visited = @ \cup {q}]
                     next == IF out \in {"append", "appendSkipDir"}
                             THEN [seen EXCEPT !.targets = Append(@, q)]
                             ELSE seen
                 IN WalkDeep(rest, tree, targetDepth,
                             IF out \in {"SkipDir", "appendSkipDir"}
                             THEN skipped \cup {q} ELSE skipped,
                             next)

findDirectoriesAtDepthOf(a) ==
    WalkDeep(DeepPaths, a.tree, a.targetDepth, {}, [targets |-> << >>, visited |-> {}])

FindDirsInit ==
    /\ NothingRunning
    /\ TasksIdle
    /\ RewriteIdle
    /\ DepthIdle
    /\ arg \in FindDirsInputs
    /\ ret = "none"
    /\ called = FALSE

CallFindDirectoriesAtDepth ==
    /\ ~called
    /\ arg \in FindDirsInputs
    /\ ret' = findDirectoriesAtDepthOf(arg)
    /\ called' = TRUE
    /\ UNCHANGED <<arg, mainVars, pvars, tvars, rvars, dvars>>

SpecFindDirs == FindDirsInit /\ [][CallFindDirectoriesAtDepth]_vars

\* C25: for every source tree and every N >= 1, findDirectoriesAtDepth(root, N)
\* returns exactly the directories at depth N below the root, each once: no
\* directory at another depth, no file; and the walk never calls its callback
\* on an entry deeper than N, so nothing below a returned directory is visited.
C25_ExactlyDepthN ==
    called =>
       LET found == {ret.targets[i] : i \in 1..Len(ret.targets)} IN
       /\ found = {q \in DeepSet : arg.tree[q] = "dir" /\ Len(q) = arg.targetDepth}
       /\ Cardinality(found) = Len(ret.targets)
       /\ \A q \in ret.visited : Len(q) <= arg.targetDepth

\* A call with N = 2 on a tree with directories at depths 1, 2 and 3 and a file
\* at depth 2, which returned something.
C25_MixedTree ==
    /\ called
    /\ arg.targetDepth = 2
    /\ arg.tree[<<"a", "a", "a">>] = "dir"
    /\ arg.tree[<<"a", "b">>] = "file"
    /\ arg.tree[<<"b", "a">>] = "dir"
    /\ Len(ret.targets) = 2

\* ---- GitIgnore.Match on strings -------------------------------------------------------
\* Patterns and paths character by character.
MaxPatLen  == 3
MaxPathLen == 4
PatChars   == {"a", "/", ".", "*"}
PathChars  == {"a", "/", "."}

StringsOver(chars, n) == UNION {[1..k -> chars] : k \in 1..n}

ExBuild     == <<"b", "u", "i", "l", "d">>
ExBuildOut  == <<"b", "u", "i", "l", "d", "/", "o", "u", "t", "p", "u", "t", ".", "b", "i", "n">>
ExBuild2    == <<"b", "u", "i", "l", "d", "2", "/", "f", "i", "l", "e">>
ExStarLog   == <<"*", ".", "l", "o", "g">>
ExDebugLog  == <<"d", "e", "b", "u", "g", ".", "l", "o", "g">>
ExDebugBak  == <<"d", "e", "b", "u", "g", ".", "l", "o", "g", ".", "b", "a", "k">>
ExDotEnv    == <<".", "e", "n", "v">>
ExConfigEnv == <<"c", "o", "n", "f", "i", "g", ".", "e", "n", "v">>
ExDistSlash == <<"d", "i", "s", "t", "/">>
ExDistApp   == <<"d", "i", "s", "t", "/", "a", "p", "p", ".", "j", "s">>

ExamplePatterns == {<< >>, <<ExBuild>>, <<ExStarLog>>, <<ExDotEnv>>, <<ExDistSlash>>,
                    <<ExBuild, ExStarLog>>, <<ExDistSlash, ExStarLog, ExDotEnv>>}
ExamplePaths == {ExBuild, ExBuildOut, ExBuild2, ExDebugLog, ExDebugBak, ExDotEnv,
                 ExConfigEnv, ExDistApp}

MatchInputs ==
    {[patterns |-> <<pat>>, path |-> q] :
        pat \in StringsOver(PatChars, MaxPatLen), q \in StringsOver(PathChars, MaxPathLen)}
    \cup [patterns : ExamplePatterns, path : ExamplePaths]

\* strings.HasPrefix, strings.HasSuffix, strings.Contains for the one character "*"
HasPrefix(str, prefix) == IsPrefix(prefix, str)
HasSuffix(str, suffix) ==
    Len(suffix) <= Len(str) /\ SubSeq(str, Len(str) - Len(suffix) + 1, Len(str)) = suffix
Stars(str) == {k \in 1..Len(str) : str[k] = "*"}

\* matchWildcard
matchWildcard(pattern, path) ==
    IF pattern = <<"*">> THEN TRUE
    ELSE IF HasPrefix(pattern, <<"*", ".">>)
    THEN HasSuffix(path, Tail(pattern))
    ELSE IF HasSuffix(pattern, <<"*">>)
    THEN HasPrefix(path, SubSeq(pattern, 1, Len(pattern) - 1))
    ELSE \* strings.Split(pattern, "*") has two parts: exactly one "*"
         IF Cardinality(Stars(pattern)) = 1
         THEN LET k == CHOOSE k \in Stars(pattern) : TRUE IN
              /\ HasPrefix(path, SubSeq(pattern, 1, k - 1))
              /\ HasSuffix(path, SubSeq(pattern, k + 1, Len(pattern)))
         ELSE FALSE

\* A plain pattern that matches every path it is a prefix of.
matchPatternStr_NoSlash(pattern, path) ==
    IF HasSuffix(pattern, <<"/">>)
    THEN LET dir == SubSeq(pattern, 1, Len(pattern) - 1) IN
         HasPrefix(path, dir \o <<"/">>) \/ path = dir
    ELSE IF Stars(pattern) # {}
    THEN matchWildcard(pattern, path)
    ELSE HasPrefix(path, pattern)

\* matchPattern, on strings
matchPatternStr(pattern, path) ==
    IF HasSuffix(pattern, <<"/">>)
    THEN LET dir == SubSeq(pattern, 1, Len(pattern) - 1) IN
         HasPrefix(path, dir \o <<"/">>) \/ path = dir
    ELSE IF Stars(pattern) # {}
    THEN matchWildcard(pattern, path)
    ELSE path = pattern \/ HasPrefix(path, pattern \o <<"/">>)

\* GitIgnore.Match
Match(patterns, relPath) ==
    \E k \in 1..Len(patterns) : matchPatternStr(patterns[k], relPath)

MatchInit ==
    /\ NothingRunning
    /\ TasksIdle
    /\ RewriteIdle
    /\ DepthIdle
    /\ arg \in MatchInputs
    /\ ret = "none"
    /\ called = FALSE

CallMatch ==
    /\ ~called
    /\ arg \in MatchInputs
    /\ ret' = Match(arg.patterns, arg.path)
    /\ called' = TRUE
    /\ UNCHANGED <<arg, mainVars, pvars, tvars, rvars, dvars>>

SpecMatch == MatchInit /\ [][CallMatch]_vars

\* The three kinds of pattern the statement describes: ending in "/", without
\* "*", and "*.ext".
Described(pattern) ==
    \/ pattern[Len(pattern)] = "/"
    \/ \A k \in 1..Len(pattern) : pattern[k] # "*"
    \/ (Len(pattern) >= 2 /\ pattern[1] = "*" /\ pattern[2] = ".")

\* What the statement says such a pattern matches.
Describes(pattern, q) ==
    IF pattern[Len(pattern)] = "/"
    THEN \/ q \o <<"/">> = pattern
         \/ (Len(q) >= Len(pattern) /\ \A k \in 1..Len(pattern) : q[k] = pattern[k])
    ELSE IF \A k \in 1..Len(pattern) : pattern[k] # "*"
    THEN \/ q = pattern
         \/ (/\ Len(q) > Len(pattern)
             /\ q[Len(pattern) + 1] = "/"
             /\ \A k \in 1..Len(pattern) : q[k] = pattern[k])
    ELSE /\ Len(q) >= Len(pattern) - 1
         /\ \A k \in 2..Len(pattern) : q[Len(q) - Len(pattern) + k] = pattern[k]

\* C26: GitIgnore.Match(path) is true iff at least one pattern matches, where a
\* pattern without wildcard matches p iff p equals it or starts with it followed
\* by "/", a pattern with a trailing "/" matches the directory and everything
\* under it, and "*.ext" matches iff p ends with ".ext"; "build" matches
\* "build" and "build/output.bin" but not "build2/file", "*.log" matches
\* "debug.log" but not "debug.log.bak", and ".env" does not match "config.env".
C26_MatchSemantics ==
    called =>
       LET ps == arg.patterns
           q  == arg.path
       IN /\ (\A k \in 1..Len(ps) : Described(ps[k]))
                => (ret <=> \E k \in 1..Len(ps) : Describes(ps[k], q))
          /\ (ps = <<ExBuild>> /\ q \in {ExBuild, ExBuildOut}) => ret
          /\ (ps = <<ExBuild>> /\ q = ExBuild2) => ~ret
          /\ (ps = <<ExStarLog>> /\ q = ExDebugLog) => ret
          /\ (ps = <<ExStarLog>> /\ q = ExDebugBak) => ~ret
          /\ (ps = <<ExDotEnv>> /\ q = ExConfigEnv) => ~ret
          /\ (ps = <<ExDotEnv>> /\ q = ExDotEnv) => ret
          /\ ps = << >> => ~ret

\* A list of two patterns of which only the second matches the path.
C26_SecondPatternMatches ==
    /\ called
    /\ arg.patterns = <<ExBuild, ExStarLog>>
    /\ arg.path = ExDebugLog
    /\ ret = TRUE

\* ---- isValidText on bytes ---------------------------------------------------------------
\* Contents byte by byte: a run of the letter "A" followed by a few bytes drawn
\* from every class the function tells apart.
MaxPad  == 40
MaxTail == 2
ByteSamples == {0, 1, 9, 10, 13, 31, 32, 126, 127, 128, 169, 194, 195, 224, 255}

Pad(k) == [j \in 1..k |-> 65]

TextInputs ==
    {Pad(k) \o tail : k \in 0..MaxPad,
                      tail \in UNION {[1..n -> ByteSamples] : n \in 0..MaxTail}}

IsCont(b) == b >= 128 /\ b <= 191

\* utf8.Valid: every byte starts or continues a well-formed encoding
RECURSIVE utf8ValidFrom(_, _)
utf8ValidFrom(content, i) ==
    IF i > Len(content) THEN TRUE
    ELSE LET b == content[i]
             n == Len(content)
             c1 == IF i + 1 <= n THEN content[i + 1] ELSE 0
             c2 == IF i + 2 <= n THEN content[i + 2] ELSE 0
             c3 == IF i + 3 <= n THEN content[i + 3] ELSE 0
         IN IF b < 128 THEN utf8ValidFrom(content, i + 1)
            ELSE IF b >= 194 /\ b <= 223
            THEN IsCont(c1) /\ utf8ValidFrom(content, i + 2)
            ELSE IF b >= 224 /\ b <= 239
            THEN /\ IsCont(c1) /\ IsCont(c2)
                 /\ (b = 224 => c1 >= 160)
                 /\ (b = 237 => c1 <= 159)
                 /\ utf8ValidFrom(content, i + 3)
            ELSE IF b >= 240 /\ b <= 244
            THEN /\ IsCont(c1) /\ IsCont(c2) /\ IsCont(c3)
                 /\ (b = 240 => c1 >= 144)
                 /\ (b = 244 => c1 <= 143)
                 /\ utf8ValidFrom(content, i + 4)
            ELSE FALSE

utf8Valid(content) == utf8ValidFrom(content, 1)

\* the loop: for _, b := range content { if b >= 32 && b <= 126 || ... }
RECURSIVE printableCount(_, _)
printableCount(content, i) ==
    IF i > Len(content) THEN 0
    ELSE (IF (content[i] >= 32 /\ content[i] <= 126) \/ content[i] \in {9, 10, 13}
          THEN 1 ELSE 0) + printableCount(content, i + 1)

\* The ratio test with "at most" in place of "less than".
BelowThreshold_Inclusive(printable, length) == printable * 100 <= 95 * length

\* float64(printableCount)/float64(len(content)) < 0.95.  The quotient of two
\* counts is rounded to the nearest float64, and so is the constant: the test
\* differs from the exact one only for contents of more than 10^14 bytes.
BelowThreshold(printable, length) == printable * 100 < 95 * length

\* isValidText, return by return
isValidTextBytes(content) ==
    IF ~utf8Valid(content) THEN FALSE
    ELSE IF \E i \in 1..Len(content) : content[i] = 0 THEN FALSE
    ELSE IF Len(content) > 0 /\ BelowThreshold(printableCount(content, 1), Len(content))
    THEN FALSE
    ELSE TRUE

TextInit ==
    /\ NothingRunning
    /\ TasksIdle
    /\ RewriteIdle
    /\ DepthIdle
    /\ arg \in TextInputs
    /\ ret = "none"
    /\ called = FALSE

CallIsValidText ==
    /\ ~called
    /\ arg \in TextInputs
    /\ ret' = isValidTextBytes(arg)
    /\ called' = TRUE
    /\ UNCHANGED <<arg, mainVars, pvars, tvars, rvars, dvars>>

SpecText == TextInit /\ [][CallIsValidText]_vars

\* The bytes of the content that are printable ASCII, tab, newline or carriage
\* return, by position.
TextBytes(content) ==
    {i \in 1..Len(content) : content[i] \in (32..126) \cup {9, 10, 13}}

\* C27: isValidText(content) is true iff content is valid UTF-8, contains no NUL
\* byte, and is either empty or has at least 95% of its bytes in printable
\* ASCII (32..126) or tab/newline/carriage return; content with exactly 95% such
\* bytes is text and any content below 95% is binary.
C27_TextIffThreeConditions ==
    called =>
       LET n == Len(arg)
           k == Cardinality(TextBytes(arg))
       IN /\ ret <=> (/\ utf8Valid(arg)
                      /\ 0 \notin {arg[i] : i \in 1..n}
                      /\ (n = 0 \/ 20 * k >= 19 * n))
          /\ (n > 0 /\ 20 * k < 19 * n) => ~ret
          /\ (n > 0 /\ 20 * k = 19 * n /\ utf8Valid(arg) /\ 0 \notin {arg[i] : i \in 1..n})
                => ret

\* Twenty bytes of which exactly nineteen are printable, found to be text.
C27_ExactlyNinetyFive ==
    /\ called
    /\ Len(arg) = 20
    /\ Cardinality(TextBytes(arg)) = 19
    /\ ret = TRUE

\* ---- the rewrite pass, file by file ----------------------------------------------------
\* rewriteAbsolutePathsAsync(srcDir, dstDir) on a destination that holds a text
\* file and a binary file in an ignored directory, a file that is not ignored,
\* and possibly a symbolic link in the ignored directory; one file of the source
\* tree is followed too.
RootR  == <<"/", "r">>
RootW  == <<"/", "w">>
RootRW == <<"/", "r", "/", "w">>

\* (srcDir, dstDir): apart, and the destination below the source, as the create
\* command places it by default (<repo>/.cow-worktrees/<branch>).
RootPairs == { <<RootR, RootW>>, <<RootR, RootRW>> }

NulChar == "NUL"

\* Contents that hold srcDir 0, 1 and 2 times.
TextsFor(srcDir) ==
    { <<"x">>, srcDir \o <<"/", "a">>, <<"=">> \o srcDir \o <<":">> \o srcDir }

DstFiles  == {"i/t", "i/b", "n", "i/l"}
SrcFile   == "src:f"
AllFiles  == DstFiles \cup {SrcFile}

\* filepath.Rel(p.dstDir, path)
RelOf(f) ==
    CASE f = "i/t" -> <<"i", "/", "t">>
      [] f = "i/b" -> <<"i", "/", "b">>
      [] f = "i/l" -> <<"i", "/", "l">>
      [] OTHER     -> <<"n">>

\* parseGitignore(srcDir): one pattern, the directory "i"
IgnoreList == << <<"i">> >>

Absent      == [kind |-> "none", data |-> << >>]
Regular(c)  == [kind |-> "file", data |-> c]
LinkTo(f)   == [kind |-> "symlink", data |-> f]

\* The file a path leads to: os.ReadFile and os.WriteFile follow a symbolic link.
Target(files, f) == IF files[f].kind = "symlink" THEN files[f].data ELSE f

\* isValidText on characters: a NUL makes the content binary
isValidTextStr(content) == \A k \in 1..Len(content) : content[k] # NulChar

\* bytes.ReplaceAll(content, old, new): left to right, without overlap
RECURSIVE ReplaceAllStr(_, _, _)
ReplaceAllStr(content, old, new) ==
    IF Len(content) < Len(old) THEN content
    ELSE IF IsPrefix(old, content)
    THEN new \o ReplaceAllStr(SubSeq(content, Len(old) + 1, Len(content)), old, new)
    ELSE <<Head(content)>> \o ReplaceAllStr(Tail(content), old, new)

RewriteInit ==
    /\ NothingRunning
    /\ FnIdle
    /\ TasksIdle
    /\ DepthIdle
    /\ rpc = "walk"
    /\ \E pair \in RootPairs : rsrc = pair[1] /\ rdst = pair[2]
    /\ \E t \in TextsFor(rsrc), n \in TextsFor(rsrc), sf \in TextsFor(rsrc),
          l \in {Absent, LinkTo("i/t"), LinkTo("n"), LinkTo(SrcFile)} :
          rfs = [f \in AllFiles |->
                   CASE f = "i/t"   -> Regular(t)
                     [] f = "i/b"   -> Regular(<<NulChar>> \o rsrc)
                     [] f = "n"     -> Regular(n)
                     [] f = "i/l"   -> l
                     [] OTHER       -> Regular(sf)]
    /\ rorig = rfs
    /\ rpending = {}
    /\ rwritten = {}
    /\ rpass = 1

\* filepath.Walk(dstDir, ...): every entry that is not a directory is submitted
RewriteWalk ==
    /\ rpc = "walk"
    /\ rpending' = {f \in DstFiles : rfs[f].kind # "none"}
    /\ rpc' = "process"
    /\ UNCHANGED <<rsrc, rdst, rfs, rorig, rwritten, rpass>>
    /\ UNCHANGED <<mainVars, pvars, fvars, tvars, dvars>>

\* WorkerPool.processFile(path)
ProcessFileStep(f) ==
    /\ rpc = "process"
    /\ f \in rpending
    /\ rpending' = rpending \ {f}
    /\ LET content == rfs[Target(rfs, f)].data
           updated == ReplaceAllStr(content, rsrc, rdst)
       IN IF /\ Match(IgnoreList, RelOf(f))
             /\ isValidTextStr(content)
             /\ updated # content
          THEN /\ rfs' = [rfs EXCEPT ![Target(rfs, f)] = Regular(updated)]
               /\ rwritten' = rwritten \cup {Target(rfs, f)}
          ELSE UNCHANGED <<rfs, rwritten>>
    /\ UNCHANGED <<rpc, rsrc, rdst, rorig, rpass>>
    /\ UNCHANGED <<mainVars, pvars, fvars, tvars, dvars>>

\* The deferred controller.Stop(); pool.Stop() and the return
RewriteReturn ==
    /\ rpc = "process"
    /\ rpending = {}
    /\ rpc' = "done"
    /\ UNCHANGED <<rsrc, rdst, rfs, rorig, rpending, rwritten, rpass>>
    /\ UNCHANGED <<mainVars, pvars, fvars, tvars, dvars>>

RewriteNext ==
    \/ RewriteWalk
    \/ \E f \in DstFiles : ProcessFileStep(f)
    \/ RewriteReturn

SpecRewrite == RewriteInit /\ [][RewriteNext]_vars

\* The places where s occurs in content, and their number.
Occurrences(content, s) ==
    {k \in 1..(Len(content) - Len(s) + 1) : SubSeq(content, k, k + Len(s) - 1) = s}
Count(content, s) == Cardinality(Occurrences(content, s))

\* C28: for every pair of source and destination roots, a text file matched by
\* an ignore pattern that held the source root N times holds, after the pass,
\* the destination root N times and the source root not at all.
C28_RootReplaced ==
    rpc = "done" =>
       \A f \in DstFiles :
          (/\ rorig[f].kind = "file"
           /\ Match(IgnoreList, RelOf(f))
           /\ isValidTextStr(rorig[f].data))
             => /\ Count(rfs[f].data, rdst) = Count(rorig[f].data, rsrc)
                /\ Count(rfs[f].data, rsrc) = 0

\* C29: the pass leaves byte-identical every destination file that does not
\* match an ignore pattern, every binary file, and every matched text file
\* without the source root; a file is written only if its content changes.
C29_OnlyChangedFilesWritten ==
    /\ \A f \in DstFiles :
          (/\ rorig[f].kind = "file"
           /\ \/ ~Match(IgnoreList, RelOf(f))
              \/ ~isValidTextStr(rorig[f].data)
              \/ Count(rorig[f].data, rsrc) = 0)
             => rfs[f] = rorig[f]
    /\ \A f \in rwritten : rfs[f] # rorig[f]

\* C30: the pass never modifies a file of the source tree: every file it writes
\* lies inside the destination tree, also when the destination holds symbolic
\* links whose targets are outside the destination.
C30_SourceUntouched ==
    /\ rfs[SrcFile] = rorig[SrcFile]
    /\ rwritten \subseteq DstFiles

\* ---- RemoveWithBranch --------------------------------------------------------------------
\* One call, given what each thing it calls answers: os.Stat of the worktree
\* path, git worktree remove, git.PlainOpen, the lookup of the branch
\* reference, its removal, and git worktree prune.
RemoveInputs ==
    [stat : {"exists", "absent", "error"}, gitRemove : BOOLEAN, open : BOOLEAN,
     ref : {"found", "absent", "error"}, removeRef : BOOLEAN, prune : BOOLEAN]

NilError == << >>

\* combineErrors: nil for no error, else one error whose text joins the messages
combineErrors(errs) ==
    IF Len(errs) = 0 THEN NilError
    ELSE <<"multiple errors occurred:">> \o errs

\* RemoveWithBranch: the errors collected, the calls made, the error returned
RemoveWithBranch(a) ==
    LET e1 == IF a.stat = "exists"
              THEN IF a.gitRemove THEN << >> ELSE <<"worktree remove">>
              ELSE IF a.stat = "absent" THEN << >> ELSE <<"stat">>
        c1 == IF a.stat = "exists" THEN {"stat", "worktree remove"} ELSE {"stat"}
    IN IF ~a.open
       THEN [errs |-> e1 \o <<"open">>, calls |-> c1 \cup {"open"},
             err |-> combineErrors(e1 \o <<"open">>)]
       ELSE LET e2 == IF a.ref = "found"
                      THEN IF a.removeRef THEN << >> ELSE <<"remove branch">>
                      ELSE IF a.ref = "absent" THEN << >> ELSE <<"check branch">>
                c2 == IF a.ref = "found" THEN {"open", "check branch", "remove branch"}
                      ELSE {"open", "check branch"}
                e3 == IF a.prune THEN << >> ELSE <<"prune">>
                all == e1 \o e2 \o e3
            IN [errs |-> all, calls |-> c1 \cup c2 \cup {"prune"},
                err |-> IF Len(all) > 0 THEN combineErrors(all) ELSE NilError]

RemoveInit ==
    /\ NothingRunning
    /\ TasksIdle
    /\ RewriteIdle
    /\ DepthIdle
    /\ arg \in RemoveInputs
    /\ ret = "none"
    /\ called = FALSE

CallRemoveWithBranch ==
    /\ ~called
    /\ arg \in RemoveInputs
    /\ ret' = RemoveWithBranch(arg)
    /\ called' = TRUE
    /\ UNCHANGED <<arg, mainVars, pvars, tvars, rvars, dvars>>

SpecRemove == RemoveInit /\ [][CallRemoveWithBranch]_vars

\* Every collected error is in the returned one, and nil is returned exactly
\* when nothing failed.
ErrorsCombined ==
    called =>
       /\ \A k \in 1..Len(ret.errs) : \E j \in 1..Len(ret.err) : ret.err[j] = ret.errs[k]
       /\ (ret.err = NilError) <=> (ret.errs = << >>)

\* C31: RemoveWithBranch does not stop at the first failure: whatever failed
\* before, and in particular when removing the worktree registration failed,
\* it still looks up the branch to remove it and still prunes; every error
\* that occurred is contained in the one combined error it returns, and it
\* returns nil only if no step failed.
C31_NoStopAtFirstFailure ==
    called =>
       /\ {"check branch", "prune"} \subseteq ret.calls
       /\ (ret.calls \cap {"check branch"} # {} /\ arg.ref = "found")
             => "remove branch" \in ret.calls
       /\ \A k \in 1..Len(ret.errs) : \E j \in 1..Len(ret.err) : ret.err[j] = ret.errs[k]
       /\ (ret.err = NilError) <=> (ret.errs = << >>)

\* ---- C32 ----------------------------------------------------------------------
\* C32: when the clone function of a clone pool (cloneDirectoryParallelFallback,
\* CloneDirectoryParallelDepth) has returned to its caller, every worker of its
\* pool has exited and no task is being executed, so that the registration and
\* the rewrite pass that follow never run beside a clone task.
C32_ClonePassComplete ==
    (pk \in {"cow", "atomic"} /\ ppc = "returned") =>
       (pw.rb + pw.sb = 0 /\ pw.ri + pw.si = 0)

\* ---- CloneDirectoryParallelDepth on trees three levels deep ---------------------------
AtomicQueueCap == 100

DepthWorkers == 1..NumCPU

DstPaths == DeepSet \cup {Root}
EmptyDst == [q \in DstPaths |-> "none"]

\* os.MkdirAll(filepath.Join(dst, q), mode): the directory and its missing parents
MkdirAllDeep(dst, q) ==
    [r \in DstPaths |-> IF IsPrefix(r, q) /\ dst[r] = "none" THEN "dir" ELSE dst[r]]

\* A skeleton pass that creates the destination root only.
createDirectoryStructureOf_RootOnly(tree, maxDepth) == <<Root>>

\* createDirectoryStructure: the walk callback on every entry below the root, with
\* its SkipDir returns; acc is the list of directories it creates
RECURSIVE SkeletonWalk(_, _, _, _, _)
SkeletonWalk(list, tree, maxDepth, skipped, acc) ==
    IF list = << >> THEN acc
    ELSE LET q == Head(list)
             rest == Tail(list)
         IN IF tree[q] = "none" \/ (\E d \in skipped : IsPrefix(d, q)) \/ tree[q] # "dir"
            THEN SkeletonWalk(rest, tree, maxDepth, skipped, acc)
            ELSE SkeletonWalk(rest, tree, maxDepth,
                              IF Len(q) >= maxDepth THEN skipped \cup {q} ELSE skipped,
                              IF Len(q) <= maxDepth THEN Append(acc, q) ELSE acc)

\* createDirectoryStructure(src, dst, maxDepth): the directories it creates, in order
createDirectoryStructureOf(tree, maxDepth) ==
    <<Root>> \o SkeletonWalk(DeepPaths, tree, maxDepth, {}, << >>)

RECURSIVE MkdirEachDeep(_, _)
MkdirEachDeep(dst, dirs) ==
    IF dirs = << >> THEN dst
    ELSE MkdirEachDeep(MkdirAllDeep(dst, Head(dirs)), Tail(dirs))

\* unix.Clonefile(src, dst, CLONE_NOFOLLOW) works only if dst does not exist and
\* its parent is a directory; it then copies the whole subtree
CanClonefile(dst, q) == dst[q] = "none" /\ dst[Parent(q)] = "dir"
Clonefile(dst, tree, q) ==
    [r \in DstPaths |-> IF r # Root /\ IsPrefix(q, r) THEN tree[r] ELSE dst[r]]

\* CreateCoWWorktree has removed the worktree path (os.RemoveAll) before the clone.
DepthInit ==
    /\ NothingRunning
    /\ FnIdle
    /\ TasksIdle
    /\ RewriteIdle
    /\ dpc = "find"
    /\ dsrc \in DeepTrees
    /\ dN \in 1..MaxTarget
    /\ ddst = EmptyDst
    /\ dtargets = << >>
    /\ dnext = 0
    /\ dq = << >>
    /\ dclosed = FALSE
    /\ dw = [i \in DepthWorkers |-> [st |-> "none", task |-> Root]]
    /\ derr = << >>

\* targets, err := findDirectoriesAtDepth(src, maxDepth)
DepthFind ==
    /\ dpc = "find"
    /\ dtargets' = findDirectoriesAtDepthOf([tree |-> dsrc, targetDepth |-> dN]).targets
    /\ dpc' = "skeleton"
    /\ UNCHANGED <<dsrc, dN, ddst, dnext, dq, dclosed, dw, derr>>
    /\ UNCHANGED <<mainVars, pvars, fvars, tvars, rvars>>

\* createDirectoryStructure(src, dst, maxDepth-1), which stops at the first
\* MkdirAll that fails; then pool.Start()
DepthSkeleton ==
    /\ dpc = "skeleton"
    /\ LET dirs == createDirectoryStructureOf(dsrc, dN - 1) IN
       \E n \in 0..Len(dirs) :
          /\ ddst' = MkdirEachDeep(ddst, SubSeq(dirs, 1, n))
          /\ IF n = Len(dirs)
             THEN /\ dpc' = "submit"
                  /\ dnext' = 1
                  /\ dw' = [i \in DepthWorkers |-> [st |-> "idle", task |-> Root]]
             ELSE /\ dpc' = "returned"
                  /\ UNCHANGED <<dnext, dw>>
    /\ UNCHANGED <<dsrc, dN, dtargets, dq, dclosed, derr>>
    /\ UNCHANGED <<mainVars, pvars, fvars, tvars, rvars>>

\* target.DstPath = filepath.Join(dst, relPath); pool.Submit(target)
DepthSubmit ==
    /\ dpc = "submit"
    /\ dnext <= Len(dtargets)
    /\ Len(dq) < AtomicQueueCap
    /\ dq' = Append(dq, dtargets[dnext])
    /\ dnext' = dnext + 1
    /\ UNCHANGED <<dpc, dsrc, dN, ddst, dtargets, dclosed, dw, derr>>
    /\ UNCHANGED <<mainVars, pvars, fvars, tvars, rvars>>

\* close(pool.taskChan)
DepthClose ==
    /\ dpc = "submit"
    /\ dnext > Len(dtargets)
    /\ dclosed' = TRUE
    /\ dpc' = "check"
    /\ UNCHANGED <<dsrc, dN, ddst, dtargets, dnext, dq, dw, derr>>
    /\ UNCHANGED <<mainVars, pvars, fvars, tvars, rvars>>

\* select { case err := <-pool.Error(): return err; default: }
DepthCheckErrors ==
    /\ dpc = "check"
    /\ derr' = IF derr # << >> THEN Tail(derr) ELSE derr
    /\ dpc' = "stop"
    /\ UNCHANGED <<dsrc, dN, ddst, dtargets, dnext, dq, dclosed, dw>>
    /\ UNCHANGED <<mainVars, pvars, fvars, tvars, rvars>>

\* deferred pool.Stop(): wg.Wait()
DepthStop ==
    /\ dpc = "stop"
    /\ \A i \in DepthWorkers : dw[i].st = "exited"
    /\ dpc' = "returned"
    /\ UNCHANGED <<dsrc, dN, ddst, dtargets, dnext, dq, dclosed, dw, derr>>
    /\ UNCHANGED <<mainVars, pvars, fvars, tvars, rvars>>

\* worker: case task, ok := <-p.taskChan
DepthWorkerTake(i) ==
    /\ dw[i].st = "idle"
    /\ dq # << >>
    /\ dw' = [dw EXCEPT ![i] = [st |-> "busy", task |-> Head(dq)]]
    /\ dq' = Tail(dq)
    /\ UNCHANGED <<dpc, dsrc, dN, ddst, dtargets, dnext, dclosed, derr>>
    /\ UNCHANGED <<mainVars, pvars, fvars, tvars, rvars>>

\* worker: processAtomicClone(task); on error send it without blocking and return
DepthWorkerClone(i) ==
    /\ dw[i].st = "busy"
    /\ \E ok \in BOOLEAN :
          /\ ok => CanClonefile(ddst, dw[i].task)
          /\ IF ok
             THEN /\ ddst' = Clonefile(ddst, dsrc, dw[i].task)
                  /\ dw' = [dw EXCEPT ![i] = [st |-> "idle", task |-> Root]]
                  /\ UNCHANGED derr
             ELSE /\ dw' = [dw EXCEPT ![i] = [st |-> "exited", task |-> Root]]
                  /\ derr' = IF Len(derr) < 1 THEN Append(derr, dw[i].task) ELSE derr
                  /\ UNCHANGED ddst
    /\ UNCHANGED <<dpc, dsrc, dN, dtargets, dnext, dq, dclosed>>
    /\ UNCHANGED <<mainVars, pvars, fvars, tvars, rvars>>

\* worker: the receive reports the channel closed and drained
DepthWorkerExit(i) ==
    /\ dw[i].st = "idle"
    /\ dq = << >> /\ dclosed
    /\ dw' = [dw EXCEPT ![i] = [st |-> "exited", task |-> Root]]
    /\ UNCHANGED <<dpc, dsrc, dN, ddst, dtargets, dnext, dq, dclosed, derr>>
    /\ UNCHANGED <<mainVars, pvars, fvars, tvars, rvars>>

DepthNext ==
    \/ DepthFind
    \/ DepthSkeleton
    \/ DepthSubmit
    \/ DepthClose
    \/ DepthCheckErrors
    \/ DepthStop
    \/ \E i \in DepthWorkers : DepthWorkerTake(i)
    \/ \E i \in DepthWorkers : DepthWorkerClone(i)
    \/ \E i \in DepthWorkers : DepthWorkerExit(i)

SpecDepth == DepthInit /\ [][DepthNext]_vars

\* ---- C33 ----
SourceDirsAbove(depth) == {q \in DeepSet : dsrc[q] = "dir" /\ Len(q) < depth}

\* C33: in the depth-limited clone, as soon as the first target can be submitted
\* the destination root and every source directory at depth < N exist in the
\* destination; only source directories at depth exactly N are queued or held;
\* and while a worker holds a target it is about to clone, the parent of the
\* target's destination is a directory and the destination itself does not exist.
C33_SkeletonBeforeTargets ==
    (dpc \in {"submit", "check", "stop"}) =>
       /\ ddst[Root] = "dir"
       /\ \A d \in SourceDirsAbove(dN) : ddst[d] = "dir"
       /\ \A k \in 1..Len(dq) : Len(dq[k]) = dN /\ dsrc[dq[k]] = "dir"
       /\ \A i \in DepthWorkers :
             dw[i].st = "busy" =>
                /\ Len(dw[i].task) = dN /\ dsrc[dw[i].task] = "dir"
                /\ CanClonefile(ddst, dw[i].task)

\* A worker holds a target at depth 3 while another target at depth 3 has been cloned.
C33_DeepTargetHeld ==
    /\ dpc \in {"submit", "check", "stop"} /\ dN = 3
    /\ \E i \in DepthWorkers : dw[i].st = "busy" /\ Len(dw[i].task) = 3
    /\ \E r \in DeepSet : Len(r) = 3 /\ ddst[r] = "dir"

\* ---- matchWildcard on its own ---------------------------------------------------------
\* matchPattern hands a pattern to matchWildcard when it contains "*"
CallMatchWildcard ==
    /\ ~called
    /\ arg \in MatchInputs
    /\ Len(arg.patterns) = 1
    /\ Stars(arg.patterns[1]) # {}
    /\ ret' = matchWildcard(arg.patterns[1], arg.path)
    /\ called' = TRUE
    /\ UNCHANGED <<arg, mainVars, pvars, tvars, rvars, dvars>>

SpecWildcard == MatchInit /\ [][CallMatchWildcard]_vars

\* 'prefix*suffix' with exactly one "*" and neither part empty
TwoPart(pattern) ==
    /\ Cardinality(Stars(pattern)) = 1
    /\ pattern[1] # "*"
    /\ pattern[Len(pattern)] # "*"

\* The reference matcher: the path is prefix + X + suffix for some X.
GlobTwoPart(pattern, q) ==
    LET k == CHOOSE k \in Stars(pattern) : TRUE
        prefix == SubSeq(pattern, 1, k - 1)
        suffix == SubSeq(pattern, k + 1, Len(pattern))
    IN \E i \in 0..Len(q) : \E j \in i..Len(q) :
          SubSeq(q, 1, i) = prefix /\ SubSeq(q, j + 1, Len(q)) = suffix

\* C34: for a pattern 'prefix*suffix' with neither part empty, matchWildcard says
\* true iff the path is prefix + X + suffix for some possibly empty X, also for
\* paths shorter than the two parts together.
C34_TwoPartIsGlob ==
    (called /\ TwoPart(arg.patterns[1])) =>
       (ret <=> GlobTwoPart(arg.patterns[1], arg.path))

\* ---- C35 ----
AfterCheck == ppc \in {"controller_stop", "pool_stop", "wait", "returned"}

\* C35: in the rewrite pass, once a worker's task has failed no further file is
\* submitted and no further file is processed, and no reported error is left
\* unread in the error channel when the function is past its error check (the
\* error it returns is the one a worker reported).
C35_ErrorAbortsPass ==
    /\ [][(pk = "rewrite" /\ pfaults > 0) => (pleft' = pleft /\ pdone' = pdone)]_vars
    /\ [](pk = "rewrite" /\ AfterCheck => perr = 0)

\* ---- C36 ----
Submitted == tnext - 1
AllWorkersExited == \A i \in PoolWorkers : tw[i].st \in {"none", "returned"}

\* C36: no counter of the file-clone pool ever decreases; processedFiles never
\* exceeds copiedFiles + skippedFiles nor the number of tasks submitted; and when
\* every worker has exited and no task failed, processedFiles equals the number
\* of tasks submitted and equals copiedFiles + skippedFiles.
C36_Counters ==
    /\ [][\A c \in DOMAIN NoCounts : tcnt'[c] >= tcnt[c]]_vars
    /\ [](/\ tcnt.processedFiles <= tcnt.copiedFiles + tcnt.skippedFiles
          /\ tcnt.processedFiles <= Submitted
          /\ (AllWorkersExited /\ tlog = << >>) =>
                /\ tcnt.processedFiles = Submitted
                /\ tcnt.processedFiles = tcnt.copiedFiles + tcnt.skippedFiles)

\* All workers have exited after a run without failure in which entries were
\* both cloned and skipped, one of them by a worker that had been removed.
C36_AllCounted ==
    /\ AllWorkersExited /\ tlog = << >>
    /\ tcnt.copiedFiles > 0 /\ tcnt.skippedFiles > 0
    /\ tcnt.processedFiles = NumTasks
    /\ \E i \in PoolWorkers : tw[i].late

\* ---- C37 ----
\* C37: in every state of a pool, workerCount and the size of the registry of
\* active workers equal the number of worker goroutines that have not returned,
\* so that a registry at or above the floor means at least one live worker.
C37_RegistryCountsLiveWorkers ==
    (pk # "none") =>
       /\ Registered = Running
       /\ (Registered >= minWorkers => Running >= 1)

\* ---- C38 ----
\* A pool over a finite walk with every goroutine scheduled: the owner takes its
\* next step whenever it can; a worker takes a task that is waiting, ends the
\* task it holds, and returns once its queue is closed and drained or its stop
\* channel is closed; the controller's ticker fires, a decision is carried out,
\* and the closed done channel is noticed.
\* cloneDirectoryParallelFallback over a walk of MaxTasks entries
LiveInit == PoolStarted /\ pk = "cow" /\ pleft = MaxTasks

SpecPoolLive ==
    /\ LiveInit
    /\ [][PoolNext]_vars
    /\ WF_vars(PoolSubmit)
    /\ WF_vars(PoolWalkDone)
    /\ WF_vars(PoolCheckErrors)
    /\ WF_vars(ControllerStop)
    /\ WF_vars(PoolStopBegin)
    /\ WF_vars(PoolStopFinish)
    /\ \A stopped \in BOOLEAN : SF_vars(PoolWorkerTake(stopped))
    /\ \A stopped \in BOOLEAN : WF_vars(PoolWorkerDone(stopped))
    /\ \A stopped \in BOOLEAN : SF_vars(PoolWorkerReturn(stopped))
    /\ WF_vars(ControllerTick)
    /\ WF_vars(ControllerAdjust)
    /\ SF_vars(ControllerExit)

\* C38: every call of a clone function or of the rewrite function returns,
\* whatever the size of the walk and whichever tasks fail: no Submit blocks for
\* ever, and when Stop waits for the workers the input channel is closed, and
\* stays closed.
C38_AlwaysReturns ==
    /\ <>(ppc = "returned")
    /\ [](ppc \in {"wait", "returned"} => pclosed)
    /\ [][pclosed => pclosed']_vars

\* ---- C39 ----
\* C39: from the moment Stop waits for the workers the controller starts no new
\* worker, and no worker sends on the error channel once it is closed (a send
\* that would bring the process down).
C39_NothingStartsAfterStop ==
    /\ [][ (ppc \in {"wait", "returned"}) => ~(cdec = "add" /\ cdec' = "idle") ]_vars
    /\ [](ppc # "panic")

\* ---- the rewrite pass run again ----------------------------------------------------------
MaxPasses == 2

\* rewriteAbsolutePathsAsync(srcDir, dstDir) called once more on the same trees
RewriteAgain ==
    /\ rpc = "done"
    /\ rpass < MaxPasses
    /\ rpc' = "walk"
    /\ rpass' = rpass + 1
    /\ UNCHANGED <<rsrc, rdst, rfs, rorig, rpending, rwritten>>
    /\ UNCHANGED <<mainVars, pvars, fvars, tvars, dvars>>

SpecRewriteTwice == RewriteInit /\ [][RewriteNext \/ RewriteAgain]_vars

\* C40: a second pass with the same roots over the same destination changes no
\* file, also when the destination root contains the source root.
C40_SecondPassChangesNothing ==
    [][rpass = 2 => rfs' = rfs]_vars
====
